---- MODULE Spec2Model ----
(***************************************************************************)
(* Cache-Composer: the CacheComposer orchestrator over its three layers    *)
(* (MemoryLayer, RedisLayer, FileLayer).                                   *)
(*                                                                         *)
(* JavaScript strings are sequences of UTF-16 code units, a Map is the     *)
(* sequence of its [key, entry] pairs in insertion order, `T | null` is    *)
(* either a value token or JSNull, an optional number is a sequence of     *)
(* length 0 or 1, and a tag array is the set of its elements (the code     *)
(* only tests membership and iterates).  Date.now() is the variable now.   *)
(* The latency samples (accessTimes, avgAccessTime) read performance.now() *)
(* and are left out: no operation's result or stored entry depends on them.*)
(***************************************************************************)
EXTENDS Integers, Sequences, FiniteSets, TLC

VARIABLES
    now,          \* Date.now(), in milliseconds
    config,       \* CacheComposer.config
    analytics,    \* CacheComposer.analytics
    layers,       \* CacheComposer.layers: the layer objects, fastest first
    globalStats,  \* CacheComposer.globalStats
    last,         \* the most recent completed Composer call and what it returned
    lastSet,      \* per key: the last Composer.set of it (when, what, and the budget left then)
    budget,       \* number of Composer calls the run may still issue
    calls,        \* the Composer calls in flight, each at the await it is suspended at
    final,        \* the keys whose delete has completed with no write of the key in
                  \* flight then or issued since
    seen          \* what the callers saw: gets answered with a value (hits) and with
                  \* null (misses) since construction or the last resetStats, and the
                  \* keys whose delete returned true and that no call has written since

vars == <<now, config, analytics, layers, globalStats, last, lastSet, budget, calls, final, seen>>

----------------------------------------------------------------------------
(* Bounds of the model *)

MaxCalls == 3
MaxCallsTtl == 4
MaxCallsMem == 4
MaxCallsLfu == 6
MaxCallsTags == 3
MaxTime == 2
MaxCallsLoad == 3
MaxCallsFile == 4
MaxCallsMulti == 3
MaxCallsStats == 5
MaxCallsEntry == 3
MaxCallsFail == 3
MaxCallsTouch == 3
MaxCallsLazy == 4
MaxCallsPromo == 3
MaxCallsRace == 3
MaxInFlight == 2
MaxCallsStale == 3
MaxCallsRetag == 3
MaxCallsCount == 3
MaxCallsInval == 3

----------------------------------------------------------------------------
(* JavaScript values *)

JSNull == "null"
JSNaN == "NaN"
\* the reason a rejecting loader rejects with
JSError == "Error"

\* "Aa" and "BB" have the same FileLayer.hashKey; "" is the empty string
StrEmpty == << >>
StrAa == <<65, 97>>
StrBB == <<66, 66>>
StrC == <<67>>
TagA == <<97>>
TagB == <<98>>

None == << >>
Some(x) == <<x>>

Abs(n) == IF n < 0 THEN -n ELSE n

RECURSIVE SumSeq(_)
SumSeq(s) == IF s = << >> THEN 0 ELSE Head(s) + SumSeq(Tail(s))

\* a set of strings as a sequence, each element once (an iteration order)
RECURSIVE SetToSeq(_)
SetToSeq(S) ==
    IF S = {} THEN << >>
    ELSE LET x == CHOOSE y \in S : TRUE IN <<x>> \o SetToSeq(S \ {x})

----------------------------------------------------------------------------
(* Map<string, CacheEntry>: pairs in insertion order *)

MapHas(m, key) == \E i \in 1..Len(m) : m[i].key = key
MapIndex(m, key) == CHOOSE i \in 1..Len(m) : m[i].key = key
MapGet(m, key) == m[MapIndex(m, key)].entry
MapSet(m, key, entry) ==
    IF MapHas(m, key)
    THEN [m EXCEPT ![MapIndex(m, key)].entry = entry]
    ELSE Append(m, [key |-> key, entry |-> entry])
MapDelete(m, key) == SelectSeq(m, LAMBDA p : p.key # key)
MapKeys(m) == {m[i].key : i \in 1..Len(m)}

\* a partial function (a Redis keyspace, a directory)
Put(f, k, v) == [x \in (DOMAIN f) \cup {k} |-> IF x = k THEN v ELSE f[x]]
Remove(f, K) == [x \in (DOMAIN f) \ K |-> f[x]]
EmptyFn == [x \in {} |-> 0]

----------------------------------------------------------------------------
(* types.ts *)

\* CacheOptions { ttl?, tags? }
CacheOptions(ttl, tags) == [ttl |-> ttl, tags |-> tags]
NoOptions == CacheOptions(None, {})

\* options.ttl || this.defaultTTL : undefined and 0 are falsy
TtlOrDefault(options, defaultTTL) ==
    IF options.ttl = None \/ options.ttl[1] = 0 THEN defaultTTL ELSE options.ttl[1]

\* the CacheEntry every layer's set builds
CacheEntry(value, options, defaultTTL, t) ==
    [value |-> value,
     expiresAt |-> t + TtlOrDefault(options, defaultTTL),
     createdAt |-> t,
     accessCount |-> 0,
     lastAccessed |-> t,
     tags |-> options.tags]

\* JSON.parse(JSON.stringify(entry)): NaN is written as null; the value tokens,
\* null, numbers and tag arrays come back as they went in
JsonRoundTrip(entry) == [entry EXCEPT !.value = IF @ = JSNaN THEN JSNull ELSE @]

LayerStats == [hits |-> 0, misses |-> 0, size |-> 0]

----------------------------------------------------------------------------
(* layers/MemoryLayer.ts *)

NewMemoryLayer(maxSize, defaultTTL, invalidation) ==
    [name |-> "memory",
     cache |-> << >>,
     stats |-> LayerStats,
     maxSize |-> maxSize,
     defaultTTL |-> defaultTTL,
     invalidation |-> invalidation]

\* a layer call answers with the layer as it leaves it and the value it returns
Answer(layer, ret) == [layer |-> layer, ret |-> ret]

\* a get that drops every expired entry it comes across, not only the key's
MemoryLayer_get_sweeps(L, key, t) ==
    LET live == SelectSeq(L.cache, LAMBDA p : ~(p.entry.expiresAt < t))
    IN IF ~MapHas(live, key)
       THEN Answer([L EXCEPT !.cache = live, !.stats.misses = @ + 1], JSNull)
       ELSE LET entry == MapGet(live, key) IN
            Answer([L EXCEPT !.cache = MapSet(live, key,
                                   [entry EXCEPT !.accessCount = @ + 1,
                                                 !.lastAccessed = t]),
                             !.stats.hits = @ + 1], entry.value)

MemoryLayer_get(L, key, t) ==
    IF ~MapHas(L.cache, key)
    THEN Answer([L EXCEPT !.stats.misses = @ + 1], JSNull)
    ELSE LET entry == MapGet(L.cache, key) IN
         IF entry.expiresAt < t
         THEN Answer([L EXCEPT !.cache = MapDelete(@, key),
                               !.stats.misses = @ + 1], JSNull)
         ELSE Answer([L EXCEPT !.cache = MapSet(@, key,
                                   [entry EXCEPT !.accessCount = @ + 1,
                                                 !.lastAccessed = t]),
                               !.stats.hits = @ + 1], entry.value)

\* the first pair, in insertion order, whose lastAccessed is below every earlier one
\* and not above any later one: `if (entry.lastAccessed < oldest)` keeps the first minimum
MemoryLayer_evictLRU(cache) ==
    IF cache = << >> THEN None
    ELSE LET i == CHOOSE i \in 1..Len(cache) :
                     /\ \A j \in 1..Len(cache) :
                            cache[i].entry.lastAccessed <= cache[j].entry.lastAccessed
                     /\ \A j \in 1..(i - 1) :
                            cache[j].entry.lastAccessed > cache[i].entry.lastAccessed
         IN Some(cache[i].key)

MemoryLayer_evictLFU(cache) ==
    IF cache = << >> THEN None
    ELSE LET i == CHOOSE i \in 1..Len(cache) :
                     /\ \A j \in 1..Len(cache) :
                            cache[i].entry.accessCount <= cache[j].entry.accessCount
                     /\ \A j \in 1..(i - 1) :
                            cache[j].entry.accessCount > cache[i].entry.accessCount
         IN Some(cache[i].key)

\* `if (keyToEvict)`: null and the empty string are both falsy
Truthy(keyToEvict) == keyToEvict # None /\ keyToEvict[1] # StrEmpty

MemoryLayer_evict(L) ==
    IF Len(L.cache) = 0 THEN L
    ELSE LET keyToEvict ==
                 CASE L.invalidation.type = "lru" -> MemoryLayer_evictLRU(L.cache)
                   [] L.invalidation.type = "lfu" -> MemoryLayer_evictLFU(L.cache)
                   [] OTHER -> MemoryLayer_evictLRU(L.cache)
         IN IF Truthy(keyToEvict)
            THEN [L EXCEPT !.cache = MapDelete(@, keyToEvict[1])]
            ELSE L

\* a set that leaves an entry already stored under the key as it is
MemoryLayer_set_keepsOld(L, key, value, options, t) ==
    IF MapHas(L.cache, key) THEN Answer(L, TRUE)
    ELSE LET L1 == IF Len(L.cache) >= L.maxSize THEN MemoryLayer_evict(L) ELSE L
             cache == MapSet(L1.cache, key, CacheEntry(value, options, L.defaultTTL, t))
         IN Answer([L1 EXCEPT !.cache = cache, !.stats.size = Len(cache)], TRUE)

\* a set whose capacity check does not look whether the key is resident
MemoryLayer_set_alwaysChecks(L, key, value, options, t) ==
    LET L1 == IF Len(L.cache) >= L.maxSize THEN MemoryLayer_evict(L) ELSE L
        cache == MapSet(L1.cache, key, CacheEntry(value, options, L.defaultTTL, t))
    IN Answer([L1 EXCEPT !.cache = cache, !.stats.size = Len(cache)], TRUE)

MemoryLayer_set(L, key, value, options, t) ==
    LET L1 == IF Len(L.cache) >= L.maxSize /\ ~MapHas(L.cache, key)
              THEN MemoryLayer_evict(L)
              ELSE L
        entry == CacheEntry(value, options, L.defaultTTL, t)
        cache == MapSet(L1.cache, key, entry)
    IN Answer([L1 EXCEPT !.cache = cache, !.stats.size = Len(cache)], TRUE)

MemoryLayer_delete(L, key) ==
    LET cache == MapDelete(L.cache, key)
    IN Answer([L EXCEPT !.cache = cache, !.stats.size = Len(cache)],
              MapHas(L.cache, key))

MemoryLayer_clear(L) ==
    Answer([L EXCEPT !.cache = << >>, !.stats.size = 0], TRUE)

MemoryLayer_has(L, key, t) ==
    IF ~MapHas(L.cache, key) THEN Answer(L, FALSE)
    ELSE IF MapGet(L.cache, key).expiresAt < t
         THEN Answer([L EXCEPT !.cache = MapDelete(@, key)], FALSE)
         ELSE Answer(L, TRUE)

MemoryLayer_keys(L) == Answer(L, [i \in 1..Len(L.cache) |-> L.cache[i].key])

MemoryLayer_size(L) == Answer(L, Len(L.cache))

\* a deleteByTag that takes every tagged entry, whatever its tags
MemoryLayer_deleteByTag_anyTag(L, tag) ==
    LET cache == SelectSeq(L.cache, LAMBDA p : p.entry.tags = {})
    IN Answer([L EXCEPT !.cache = cache, !.stats.size = Len(cache)],
              Len(L.cache) - Len(cache))

MemoryLayer_deleteByTag(L, tag) ==
    LET cache == SelectSeq(L.cache, LAMBDA p : tag \notin p.entry.tags)
    IN Answer([L EXCEPT !.cache = cache, !.stats.size = Len(cache)],
              Len(L.cache) - Len(cache))

----------------------------------------------------------------------------
(* The Redis server behind RedisLayer.client: one keyspace of strings (with *)
(* their PX expiry) and sets.  A key whose expiry has passed is gone.  The  *)
(* keys of the model never start with "tag:", so a cache key and a tag set  *)
(* never share a name and no command meets a value of the wrong type.       *)

RedisString(data, pexpireAt) == [type |-> "string", data |-> data, pexpireAt |-> pexpireAt]
RedisSet(members) == [type |-> "set", members |-> members]

RedisLive(db, t) ==
    [k \in {x \in DOMAIN db : db[x].type = "set" \/ t < db[x].pexpireAt} |-> db[k]]

\* SET key value PX ttl answers an error unless ttl is a positive integer
RedisSetOk(ttl) == ttl > 0

RedisSadd(db, k, member) ==
    Put(db, k, RedisSet((IF k \in DOMAIN db THEN db[k].members ELSE {}) \cup {member}))

RECURSIVE RedisSaddAll(_, _, _)
RedisSaddAll(db, ks, member) ==
    IF ks = << >> THEN db
    ELSE RedisSaddAll(RedisSadd(db, Head(ks), member), Tail(ks), member)

----------------------------------------------------------------------------
(* layers/RedisLayer.ts *)

\* 'cache:' and 'tag:'
StrCachePrefix == <<99, 97, 99, 104, 101, 58>>
StrTagPrefix == <<116, 97, 103, 58>>

NewRedisLayer(client, defaultTTL) ==
    [name |-> "redis",
     client |-> client,
     stats |-> LayerStats,
     defaultTTL |-> defaultTTL,
     prefix |-> StrCachePrefix]

RedisLayer_getKey(L, key) == L.prefix \o key
RedisLayer_tagKey(L, tag) == L.prefix \o StrTagPrefix \o tag

RedisLayer_delete(L, key, t) ==
    LET db == RedisLive(L.client, t)
        k == RedisLayer_getKey(L, key)
    IN Answer([L EXCEPT !.client = Remove(db, {k})], k \in DOMAIN db)

RedisLayer_get(L, key, t) ==
    LET db == RedisLive(L.client, t)
        k == RedisLayer_getKey(L, key)
        L1 == [L EXCEPT !.client = db]
    IN IF k \notin DOMAIN db
       THEN Answer([L1 EXCEPT !.stats.misses = @ + 1], JSNull)
       ELSE LET entry == db[k].data IN
            IF entry.expiresAt < t
            THEN Answer([RedisLayer_delete(L1, key, t).layer
                             EXCEPT !.stats.misses = @ + 1], JSNull)
            ELSE Answer([L1 EXCEPT !.stats.hits = @ + 1], entry.value)

RedisLayer_set(L, key, value, options, t) ==
    LET db == RedisLive(L.client, t)
        ttl == TtlOrDefault(options, L.defaultTTL)
        entry == CacheEntry(value, options, L.defaultTTL, t)
        stored == Put(db, RedisLayer_getKey(L, key),
                      RedisString(JsonRoundTrip(entry), t + ttl))
        tagKeys == SetToSeq({RedisLayer_tagKey(L, tag) : tag \in options.tags})
    IN IF RedisSetOk(ttl)
       THEN Answer([L EXCEPT !.client = RedisSaddAll(stored, tagKeys, key)], TRUE)
       ELSE Answer([L EXCEPT !.client = db], TRUE)

RedisLayer_clear(L, t) == Answer([L EXCEPT !.client = EmptyFn], TRUE)

RedisLayer_has(L, key, t) ==
    LET db == RedisLive(L.client, t)
    IN Answer([L EXCEPT !.client = db], RedisLayer_getKey(L, key) \in DOMAIN db)

\* every key of the keyspace, tag sets included, without the prefix
RedisLayer_keys(L, t) ==
    LET db == RedisLive(L.client, t)
    IN Answer([L EXCEPT !.client = db],
              SetToSeq({SubSeq(k, Len(L.prefix) + 1, Len(k)) : k \in DOMAIN db}))

RedisLayer_size(L, t) ==
    LET db == RedisLive(L.client, t)
    IN Answer([L EXCEPT !.client = db], Cardinality(DOMAIN db))

\* the members of the tag's set are deleted and counted, whatever they hold now
RedisLayer_deleteByTag(L, tag, t) ==
    LET db == RedisLive(L.client, t)
        tk == RedisLayer_tagKey(L, tag)
        keys == IF tk \in DOMAIN db THEN db[tk].members ELSE {}
        fullKeys == {RedisLayer_getKey(L, k) : k \in keys}
    IN IF keys = {}
       THEN Answer([L EXCEPT !.client = db], 0)
       ELSE Answer([L EXCEPT !.client = Remove(db, fullKeys \cup {tk})],
                   Cardinality(keys))

----------------------------------------------------------------------------
(* layers/FileLayer.ts, under Node (this.fs is set): the directory is a    *)
(* function from file names to the JSON text of the entry written there.   *)

StrDotJson == <<46, 106, 115, 111, 110>>

NewFileLayer(directory, defaultTTL) ==
    [name |-> "file",
     files |-> EmptyFn,
     stats |-> LayerStats,
     defaultTTL |-> defaultTTL,
     directory |-> directory]

\* Number.prototype.toString(36) of a non-negative integer
Base36Digit(d) == IF d < 10 THEN 48 + d ELSE 87 + d

RECURSIVE ToBase36(_)
ToBase36(n) ==
    IF n < 36 THEN <<Base36Digit(n)>>
    ELSE ToBase36(n \div 36) \o <<Base36Digit(n % 36)>>

\* hash = ((hash << 5) - hash) + char; hash = hash & hash.  The keys of the
\* model have at most two code units below 128, so hash stays below 2^31 and
\* the conversion to 32 bits changes nothing.
RECURSIVE HashFrom(_, _)
HashFrom(hash, key) ==
    IF key = << >> THEN hash
    ELSE HashFrom(((hash * 32) - hash) + Head(key), Tail(key))

FileLayer_hashKey(key) == ToBase36(Abs(HashFrom(0, key)))

FileLayer_getFilePath(key) == FileLayer_hashKey(key) \o StrDotJson

FileLayer_delete(L, key) ==
    LET filePath == FileLayer_getFilePath(key)
    IN Answer([L EXCEPT !.files = Remove(@, {filePath})], filePath \in DOMAIN L.files)

FileLayer_get(L, key, t) ==
    LET filePath == FileLayer_getFilePath(key)
    IN IF filePath \notin DOMAIN L.files
       THEN Answer([L EXCEPT !.stats.misses = @ + 1], JSNull)
       ELSE LET entry == L.files[filePath] IN
            IF entry.expiresAt < t
            THEN Answer([FileLayer_delete(L, key).layer
                             EXCEPT !.stats.misses = @ + 1], JSNull)
            ELSE Answer([L EXCEPT !.stats.hits = @ + 1], entry.value)

FileLayer_set(L, key, value, options, t) ==
    LET entry == CacheEntry(value, options, L.defaultTTL, t)
    IN Answer([L EXCEPT !.files = Put(@, FileLayer_getFilePath(key),
                                        JsonRoundTrip(entry))], TRUE)

FileLayer_clear(L) == Answer([L EXCEPT !.files = EmptyFn], TRUE)

\* fs.access: the file exists; the entry in it is not read
FileLayer_has(L, key) == Answer(L, FileLayer_getFilePath(key) \in DOMAIN L.files)

\* the file names without '.json': the hashes, not the keys
FileLayer_keys(L) ==
    Answer(L, SetToSeq({SubSeq(f, 1, Len(f) - Len(StrDotJson)) : f \in DOMAIN L.files}))

FileLayer_size(L) == Answer(L, Cardinality(DOMAIN L.files))

FileLayer_deleteByTag(L, tag) ==
    LET hit == {f \in DOMAIN L.files : tag \in L.files[f].tags}
    IN Answer([L EXCEPT !.files = Remove(@, hit)], Cardinality(hit))

----------------------------------------------------------------------------
(* The CacheLayer contract: a call on a layer object goes to its class *)

Layer_get(L, key, t) ==
    CASE L.name = "memory" -> MemoryLayer_get(L, key, t)
      [] L.name = "redis" -> RedisLayer_get(L, key, t)
      [] L.name = "file" -> FileLayer_get(L, key, t)

Layer_set(L, key, value, options, t) ==
    CASE L.name = "memory" -> MemoryLayer_set(L, key, value, options, t)
      [] L.name = "redis" -> RedisLayer_set(L, key, value, options, t)
      [] L.name = "file" -> FileLayer_set(L, key, value, options, t)

Layer_delete(L, key, t) ==
    CASE L.name = "memory" -> MemoryLayer_delete(L, key)
      [] L.name = "redis" -> RedisLayer_delete(L, key, t)
      [] L.name = "file" -> FileLayer_delete(L, key)

Layer_clear(L, t) ==
    CASE L.name = "memory" -> MemoryLayer_clear(L)
      [] L.name = "redis" -> RedisLayer_clear(L, t)
      [] L.name = "file" -> FileLayer_clear(L)

Layer_has(L, key, t) ==
    CASE L.name = "memory" -> MemoryLayer_has(L, key, t)
      [] L.name = "redis" -> RedisLayer_has(L, key, t)
      [] L.name = "file" -> FileLayer_has(L, key)

\* 'deleteByTag' in layer && typeof layer.deleteByTag === 'function'
Layer_hasDeleteByTag(L) == L.name \in {"memory", "redis", "file"}

Layer_deleteByTag(L, tag, t) ==
    CASE L.name = "memory" -> MemoryLayer_deleteByTag(L, tag)
      [] L.name = "redis" -> RedisLayer_deleteByTag(L, tag, t)
      [] L.name = "file" -> FileLayer_deleteByTag(L, tag)

----------------------------------------------------------------------------
(* CacheComposer.ts *)

DefaultMaxSize == 1000
DefaultTTL == 3600000

\* x || d for an optional number
OrDefault(x, d) == IF x = None \/ x[1] = 0 THEN d ELSE x[1]

\* CacheLayerConfig; memory, redis and file may each be left out (None)
LayerConfig(enabled, maxSize, ttl, invalidation) ==
    [enabled |-> enabled, maxSize |-> maxSize, ttl |-> ttl, invalidation |-> invalidation]

CacheComposer_initializeLayers(cfg) ==
    (IF cfg.memory = None \/ cfg.memory[1].enabled
     THEN LET memConfig == cfg.memory IN
          <<NewMemoryLayer(
              IF memConfig = None THEN DefaultMaxSize
              ELSE OrDefault(memConfig[1].maxSize, DefaultMaxSize),
              IF memConfig = None THEN DefaultTTL
              ELSE OrDefault(memConfig[1].ttl, DefaultTTL),
              IF memConfig = None \/ memConfig[1].invalidation = None
              THEN [type |-> "lru"]
              ELSE memConfig[1].invalidation[1])>>
     ELSE << >>)
    \o
    (IF cfg.redis # None /\ cfg.redis[1].enabled /\ cfg.redis[1].client
     THEN <<NewRedisLayer(EmptyFn, OrDefault(cfg.redis[1].ttl, DefaultTTL))>>
     ELSE << >>)
    \o
    (IF cfg.file # None /\ cfg.file[1].enabled
     THEN <<NewFileLayer(".cache", OrDefault(cfg.file[1].ttl, DefaultTTL))>>
     ELSE << >>)

\* a get that writes nothing back
CacheComposer_promote_none(Ls, j, i, key, value, t) == Ls

\* a promotion that also rewrites the layer that served the read
CacheComposer_promote_inclusive(Ls, j, i, key, value, t) ==
    [n \in 1..Len(Ls) |->
        IF j <= n /\ n <= i THEN Layer_set(Ls[n], key, value, NoOptions, t).layer ELSE Ls[n]]

\* get: the promotion loop, layers j .. i-1
RECURSIVE CacheComposer_promote(_, _, _, _, _, _)
CacheComposer_promote(Ls, j, i, key, value, t) ==
    IF j >= i THEN Ls
    ELSE CacheComposer_promote(
             [Ls EXCEPT ![j] = Layer_set(Ls[j], key, value, NoOptions, t).layer],
             j + 1, i, key, value, t)

\* get: the probe loop from layer i on; `hit` is the index of the layer that
\* answered, 0 when none did
RECURSIVE CacheComposer_probe(_, _, _, _)
CacheComposer_probe(Ls, i, key, t) ==
    IF i > Len(Ls) THEN [layers |-> Ls, ret |-> JSNull, hit |-> 0]
    ELSE LET r == Layer_get(Ls[i], key, t)
             Ls1 == [Ls EXCEPT ![i] = r.layer]
         IN IF r.ret # JSNull
            THEN [layers |-> CacheComposer_promote(Ls1, 1, i, key, r.ret, t),
                  ret |-> r.ret, hit |-> i]
            ELSE CacheComposer_probe(Ls1, i + 1, key, t)

CacheComposer_get(Ls, key, t) == CacheComposer_probe(Ls, 1, key, t)

CacheComposer_set(Ls, key, value, options, t) ==
    [layers |-> [i \in 1..Len(Ls) |-> Layer_set(Ls[i], key, value, options, t).layer]]

\* a delete that stops at the first layer that reports a deletion
CacheComposer_delete_firstOnly(Ls, key, t) ==
    LET results == [i \in 1..Len(Ls) |-> Layer_delete(Ls[i], key, t)]
        done(i) == \E j \in 1..(i - 1) : results[j].ret
    IN [layers |-> [i \in 1..Len(Ls) |-> IF done(i) THEN Ls[i] ELSE results[i].layer],
        ret |-> \E i \in 1..Len(Ls) : results[i].ret]

CacheComposer_delete(Ls, key, t) ==
    LET results == [i \in 1..Len(Ls) |-> Layer_delete(Ls[i], key, t)]
    IN [layers |-> [i \in 1..Len(Ls) |-> results[i].layer],
        ret |-> \E i \in 1..Len(Ls) : results[i].ret]

\* a clear that clears the first layer only
CacheComposer_clear_firstOnly(Ls, t) ==
    [layers |-> [i \in 1..Len(Ls) |-> IF i = 1 THEN Layer_clear(Ls[i], t).layer ELSE Ls[i]]]

CacheComposer_clear(Ls, t) ==
    [layers |-> [i \in 1..Len(Ls) |-> Layer_clear(Ls[i], t).layer]]

RECURSIVE CacheComposer_hasFrom(_, _, _, _)
CacheComposer_hasFrom(Ls, i, key, t) ==
    IF i > Len(Ls) THEN [layers |-> Ls, ret |-> FALSE]
    ELSE LET r == Layer_has(Ls[i], key, t)
             Ls1 == [Ls EXCEPT ![i] = r.layer]
         IN IF r.ret THEN [layers |-> Ls1, ret |-> TRUE]
            ELSE CacheComposer_hasFrom(Ls1, i + 1, key, t)

\* a has that looks the key up with get
CacheComposer_has_viaGet(Ls, key, t) ==
    LET r == CacheComposer_get(Ls, key, t)
    IN [layers |-> r.layers, ret |-> r.ret # JSNull]

CacheComposer_has(Ls, key, t) == CacheComposer_hasFrom(Ls, 1, key, t)

\* a deleteByTag that stops at the first layer that deleted something
CacheComposer_deleteByTag_firstOnly(Ls, tag, t) ==
    LET results == [i \in 1..Len(Ls) |-> Layer_deleteByTag(Ls[i], tag, t)]
        done(i) == \E j \in 1..(i - 1) : results[j].ret > 0
    IN [layers |-> [i \in 1..Len(Ls) |-> IF done(i) THEN Ls[i] ELSE results[i].layer],
        deleted |-> [i \in 1..Len(Ls) |-> IF done(i) THEN 0 ELSE results[i].ret],
        ret |-> SumSeq([i \in 1..Len(Ls) |-> IF done(i) THEN 0 ELSE results[i].ret])]

\* deleteByTag: layer by layer, `deleted` the count each layer reported
\* (0 for a layer without deleteByTag, which is not called)
CacheComposer_deleteByTag(Ls, tag, t) ==
    LET results == [i \in 1..Len(Ls) |->
                       IF Layer_hasDeleteByTag(Ls[i])
                       THEN Layer_deleteByTag(Ls[i], tag, t)
                       ELSE Answer(Ls[i], 0)]
    IN [layers |-> [i \in 1..Len(Ls) |-> results[i].layer],
        deleted |-> [i \in 1..Len(Ls) |-> results[i].ret],
        ret |-> SumSeq([i \in 1..Len(Ls) |-> results[i].ret])]

\* what a loader does when it is invoked: it resolves to a value or it rejects
Loader(threw, value) == [threw |-> threw, value |-> value]

\* a getOrSet that writes the key before it knows what the loader did
CacheComposer_getOrSet_storesFirst(Ls, key, loader, options, t) ==
    LET cached == CacheComposer_get(Ls, key, t) IN
    IF cached.ret # JSNull
    THEN [layers |-> cached.layers, ret |-> cached.ret, got |-> cached.ret,
          threw |-> FALSE, loads |-> 0, sets |-> 0]
    ELSE [layers |-> CacheComposer_set(cached.layers, key, loader.value, options, t).layers,
          ret |-> loader.value, got |-> JSNull,
          threw |-> loader.threw, loads |-> 1, sets |-> 1]

\* getOrSet: `loads` is the number of times the loader was invoked and `sets` the
\* number of Composer.set calls made; `threw` tells that the loader's rejection
\* left the call (nothing catches it)
CacheComposer_getOrSet(Ls, key, loader, options, t) ==
    LET cached == CacheComposer_get(Ls, key, t) IN
    IF cached.ret # JSNull
    THEN [layers |-> cached.layers, ret |-> cached.ret, got |-> cached.ret,
          threw |-> FALSE, loads |-> 0, sets |-> 0]
    ELSE IF loader.threw
    THEN [layers |-> cached.layers, ret |-> JSNull, got |-> JSNull,
          threw |-> TRUE, loads |-> 1, sets |-> 0]
    ELSE [layers |-> CacheComposer_set(cached.layers, key, loader.value, options, t).layers,
          ret |-> loader.value, got |-> JSNull,
          threw |-> FALSE, loads |-> 1, sets |-> 1]

\* mget, first turn: every callback runs up to its first await, which is the
\* call of layers[0].get; the memory layer's get runs to its end inside that call
RECURSIVE CacheComposer_mgetFirst(_, _, _)
CacheComposer_mgetFirst(Ls, keys, t) ==
    IF keys = << >> \/ Ls = << >> THEN [layers |-> Ls, rets |-> [i \in 1..Len(keys) |-> JSNull]]
    ELSE LET r == Layer_get(Ls[1], Head(keys), t)
             rest == CacheComposer_mgetFirst([Ls EXCEPT ![1] = r.layer], Tail(keys), t)
         IN [layers |-> rest.layers, rets |-> <<r.ret>> \o rest.rets]

\* mget, the rest: the gets that the first layer did not answer go on through the
\* slower layers and promote; `order` is the order in which they get there
RECURSIVE CacheComposer_mgetRest(_, _, _, _)
CacheComposer_mgetRest(Ls, order, found, t) ==
    IF order = << >> THEN [layers |-> Ls, found |-> found]
    ELSE LET key == Head(order)
             r == IF found[key] # JSNull
                  THEN [layers |-> Ls, ret |-> found[key]]
                  ELSE CacheComposer_probe(Ls, 2, key, t)
         IN CacheComposer_mgetRest(r.layers, Tail(order),
                                   [found EXCEPT ![key] = r.ret], t)

\* an mget that puts every key into the Map, null for the keys not found
CacheComposer_mget_nulls(Ls, keys, order, t) ==
    LET first == CacheComposer_mgetFirst(Ls, keys, t)
        found0 == [k \in {keys[i] : i \in 1..Len(keys)} |->
                      first.rets[CHOOSE i \in 1..Len(keys) : keys[i] = k]]
        rest == CacheComposer_mgetRest(first.layers, order, found0, t)
    IN [layers |-> rest.layers,
        results |-> [i \in 1..Len(order) |-> <<order[i], rest.found[order[i]]>>],
        rets |-> [i \in 1..Len(keys) |-> rest.found[keys[i]]]]

\* mget: `keys` is the array passed (no key twice), `order` the same keys in the
\* order their gets complete; results is the Map built, a pair per key found,
\* and rets what each get returned, key by key
CacheComposer_mget(Ls, keys, order, t) ==
    LET first == CacheComposer_mgetFirst(Ls, keys, t)
        found0 == [k \in {keys[i] : i \in 1..Len(keys)} |->
                      first.rets[CHOOSE i \in 1..Len(keys) : keys[i] = k]]
        rest == CacheComposer_mgetRest(first.layers, order, found0, t)
        hits == SelectSeq(order, LAMBDA k : rest.found[k] # JSNull)
    IN [layers |-> rest.layers,
        results |-> [i \in 1..Len(hits) |-> <<hits[i], rest.found[hits[i]]>>],
        rets |-> [i \in 1..Len(keys) |-> rest.found[keys[i]]]]

\* mset: a Composer.set per entry, started in the Map's order; entries is the
\* sequence of the Map's [key, value] pairs
RECURSIVE CacheComposer_mset(_, _, _, _)
CacheComposer_mset(Ls, entries, options, t) ==
    IF entries = << >> THEN [layers |-> Ls]
    ELSE CacheComposer_mset(
             CacheComposer_set(Ls, Head(entries)[1], Head(entries)[2], options, t).layers,
             Tail(entries), options, t)

\* [...new Set(array)]: each element once, in the order of its first occurrence
RECURSIVE Dedupe(_)
Dedupe(s) ==
    IF s = << >> THEN << >>
    ELSE LET front == Dedupe(SubSeq(s, 1, Len(s) - 1))
             x == s[Len(s)]
         IN IF \E i \in 1..Len(front) : front[i] = x THEN front ELSE Append(front, x)

RECURSIVE Flat(_)
Flat(ss) == IF ss = << >> THEN << >> ELSE Head(ss) \o Flat(Tail(ss))

Layer_keys(L, t) ==
    CASE L.name = "memory" -> MemoryLayer_keys(L)
      [] L.name = "redis" -> RedisLayer_keys(L, t)
      [] L.name = "file" -> FileLayer_keys(L)

CacheComposer_keys(Ls, t) ==
    LET allKeys == [i \in 1..Len(Ls) |-> Layer_keys(Ls[i], t)]
    IN [layers |-> [i \in 1..Len(Ls) |-> allKeys[i].layer],
        ret |-> Dedupe(Flat([i \in 1..Len(Ls) |-> allKeys[i].ret]))]

\* a / b for integers a >= 0, b > 0, as the fraction in lowest terms: the
\* quotient JavaScript computes is the double nearest to this number
RECURSIVE Gcd(_, _)
Gcd(a, b) == IF b = 0 THEN a ELSE Gcd(b, a % b)
Quotient(a, b) == [num |-> a \div Gcd(a, b), den |-> b \div Gcd(a, b)]
Zero == [num |-> 0, den |-> 1]

\* a getStats that counts only the hits as requests
CacheComposer_getStats_hitsOnly(stats, Ls) ==
    [hits |-> stats.hits, misses |-> stats.misses, sets |-> stats.sets,
     deletes |-> stats.deletes,
     hitRate |-> IF stats.hits > 0 THEN Quotient(stats.hits, stats.hits) ELSE Zero,
     totalRequests |-> stats.hits,
     layerStats |-> [n \in {Ls[i].name : i \in 1..Len(Ls)} |->
                        (Ls[CHOOSE i \in 1..Len(Ls) : Ls[i].name = n]).stats]]

CacheComposer_getStats(stats, Ls) ==
    LET totalRequests == stats.hits + stats.misses
        hitRate == IF totalRequests > 0 THEN Quotient(stats.hits, totalRequests) ELSE Zero
    IN [hits |-> stats.hits, misses |-> stats.misses, sets |-> stats.sets,
        deletes |-> stats.deletes,
        hitRate |-> hitRate,
        totalRequests |-> totalRequests,
        layerStats |-> [n \in {Ls[i].name : i \in 1..Len(Ls)} |->
                           (Ls[CHOOSE i \in 1..Len(Ls) : Ls[i].name = n]).stats]]

CacheComposer_resetStats == [hits |-> 0, misses |-> 0, sets |-> 0, deletes |-> 0]

----------------------------------------------------------------------------
(* The state machine: one action per Composer call, each the whole call *)

\* a touch that re-sets the value in the layer that served the read and the
\* layers above it only
CacheComposer_touch_servedOnly(Ls, key, ttl, t) ==
    LET g == CacheComposer_get(Ls, key, t)
        w == CacheComposer_set(g.layers, key, g.ret, CacheOptions(ttl, {}), t).layers
    IN IF g.ret = JSNull
       THEN [layers |-> g.layers, ret |-> FALSE, got |-> g.ret, hit |-> g.hit, sets |-> 0]
       ELSE [layers |-> [i \in 1..Len(Ls) |-> IF i <= g.hit THEN w[i] ELSE g.layers[i]],
             ret |-> TRUE, got |-> g.ret, hit |-> g.hit, sets |-> 1]

\* touch: get, then set(key, value, { ttl }) unless the get returned null
CacheComposer_touch(Ls, key, ttl, t) ==
    LET g == CacheComposer_get(Ls, key, t)
    IN IF g.ret = JSNull
       THEN [layers |-> g.layers, ret |-> FALSE, got |-> g.ret, hit |-> g.hit, sets |-> 0]
       ELSE [layers |-> CacheComposer_set(g.layers, key, g.ret, CacheOptions(ttl, {}), t).layers,
             ret |-> TRUE, got |-> g.ret, hit |-> g.hit, sets |-> 1]

\* `if (!value)`: null and the falsy values
Falsy(value) == value \in {JSNull, JSNaN}

\* ttl: the first layer's get of the key; -1 for a truthy value, else null (None)
CacheComposer_ttl(Ls, key, t) ==
    IF Len(Ls) = 0 THEN [layers |-> Ls, ret |-> None]
    ELSE LET r == Layer_get(Ls[1], key, t)
         IN [layers |-> [Ls EXCEPT ![1] = r.layer],
             ret |-> IF Falsy(r.ret) THEN None ELSE Some(-1)]

\* pattern.test(key) for a pattern that is a literal string and has no flags:
\* the key holds the string
RegExpTest(pattern, key) ==
    \E i \in 0..(Len(key) - Len(pattern)) : SubSeq(key, i + 1, i + Len(pattern)) = pattern

\* Promise.all(matchingKeys.map(key => this.delete(key)))
RECURSIVE CacheComposer_deleteAll(_, _, _)
CacheComposer_deleteAll(Ls, keys, t) ==
    IF keys = << >> THEN Ls
    ELSE CacheComposer_deleteAll(CacheComposer_delete(Ls, Head(keys), t).layers,
                                 Tail(keys), t)

\* invalidatePattern: keys(), filter by pattern.test, delete each, return the count
CacheComposer_invalidatePattern(Ls, pattern, t) ==
    LET allKeys == CacheComposer_keys(Ls, t)
        matchingKeys == SelectSeq(allKeys.ret, LAMBDA key : RegExpTest(pattern, key))
    IN [layers |-> CacheComposer_deleteAll(allKeys.layers, matchingKeys, t),
        ret |-> Len(matchingKeys), matching |-> matchingKeys]

(* Backend failures.  `down` is the set of layers (by name) whose backend,   *)
(* the Redis client or the file system, throws on every request during the  *)
(* call.  The memory layer has no backend.                                  *)

\* a layer method that returned
Returned(a) == [layer |-> a.layer, ret |-> a.ret, threw |-> FALSE]

\* get: catch (error) { this.stats.misses++; ...; return null; }
Layer_get_caught(L) ==
    [layer |-> [L EXCEPT !.stats.misses = @ + 1], ret |-> JSNull, threw |-> FALSE]

\* a set that lets the backend's error through
Layer_set_uncaught(L) == [layer |-> L, ret |-> JSError, threw |-> TRUE]

\* set: catch (error) { console.error(...); }
Layer_set_caught(L) == [layer |-> L, ret |-> TRUE, threw |-> FALSE]

\* delete: catch (error) { return false; }
Layer_delete_caught(L) == [layer |-> L, ret |-> FALSE, threw |-> FALSE]

Layer_getWith(L, key, t, down) ==
    IF L.name \in down THEN Layer_get_caught(L) ELSE Returned(Layer_get(L, key, t))

Layer_setWith(L, key, value, options, t, down) ==
    IF L.name \in down THEN Layer_set_caught(L)
    ELSE Returned(Layer_set(L, key, value, options, t))

Layer_deleteWith(L, key, t, down) ==
    IF L.name \in down THEN Layer_delete_caught(L) ELSE Returned(Layer_delete(L, key, t))

\* get: the promotion loop, layers j .. i-1; an error of a set ends the loop
RECURSIVE CacheComposer_promoteWith(_, _, _, _, _, _, _)
CacheComposer_promoteWith(Ls, j, i, key, value, t, down) ==
    IF j >= i THEN [layers |-> Ls, threw |-> FALSE]
    ELSE LET r == Layer_setWith(Ls[j], key, value, NoOptions, t, down)
             Ls1 == [Ls EXCEPT ![j] = r.layer]
         IN IF r.threw THEN [layers |-> Ls1, threw |-> TRUE]
            ELSE CacheComposer_promoteWith(Ls1, j + 1, i, key, value, t, down)

\* get: the probe loop from layer i on; an error of a layer ends the call
RECURSIVE CacheComposer_probeWith(_, _, _, _, _)
CacheComposer_probeWith(Ls, i, key, t, down) ==
    IF i > Len(Ls) THEN [layers |-> Ls, ret |-> JSNull, hit |-> 0, threw |-> FALSE]
    ELSE LET r == Layer_getWith(Ls[i], key, t, down)
             Ls1 == [Ls EXCEPT ![i] = r.layer]
         IN IF r.threw THEN [layers |-> Ls1, ret |-> JSError, hit |-> 0, threw |-> TRUE]
            ELSE IF r.ret # JSNull
            THEN LET p == CacheComposer_promoteWith(Ls1, 1, i, key, r.ret, t, down)
                 IN [layers |-> p.layers, ret |-> IF p.threw THEN JSError ELSE r.ret,
                     hit |-> i, threw |-> p.threw]
            ELSE CacheComposer_probeWith(Ls1, i + 1, key, t, down)

CacheComposer_getWith(Ls, key, t, down) == CacheComposer_probeWith(Ls, 1, key, t, down)

\* set: Promise.all starts every layer's set and rejects when one of them does
CacheComposer_setWith(Ls, key, value, options, t, down) ==
    LET results == [i \in 1..Len(Ls) |-> Layer_setWith(Ls[i], key, value, options, t, down)]
    IN [layers |-> [i \in 1..Len(Ls) |-> results[i].layer],
        threw |-> \E i \in 1..Len(Ls) : results[i].threw]

CacheComposer_deleteWith(Ls, key, t, down) ==
    LET results == [i \in 1..Len(Ls) |-> Layer_deleteWith(Ls[i], key, t, down)]
    IN [layers |-> [i \in 1..Len(Ls) |-> results[i].layer],
        ret |-> \E i \in 1..Len(Ls) : results[i].ret,
        threw |-> \E i \in 1..Len(Ls) : results[i].threw]

AllKeys == {StrEmpty, StrAa, StrBB, StrC}

\* what a completed call leaves in `last`: its arguments, the time it ran at,
\* its result (ret: a value, ok: a boolean, n: a count, per: the count of each
\* layer), the layer that answered a get, and the keys that left the memory layer
Call(op, key, value, options, at, ret, ok, n, per, hit, gone) ==
    [op |-> op, key |-> key, value |-> value, options |-> options, at |-> at,
     ret |-> ret, ok |-> ok, n |-> n, per |-> per, hit |-> hit, gone |-> gone]

NoCall == Call("none", StrEmpty, JSNull, NoOptions, 0, JSNull, FALSE, 0, << >>, 0, {})

\* a call in flight: the method and its arguments (entries: the [key, value]
\* pairs of a set or mset; value: what the loader of a getOrSet resolves to), the
\* await it is suspended at (pc, and the layer `at` that a get asks or promotes
\* into next), the layer requests of a fan-out not yet answered (todo: pairs of
\* entry and layer), what it has found so far, for a delete, whether no write of
\* its key was in flight or issued while it ran (clean), and, for a get, whether
\* a set of its key with another value has returned since the get read the value
\* it is promoting (stale)
Task(op, key, value, entries, pc, at, todo, hit, got, any, loads, clean, stale) ==
    [op |-> op, key |-> key, value |-> value, entries |-> entries, pc |-> pc,
     at |-> at, todo |-> todo, hit |-> hit, got |-> got, any |-> any, loads |-> loads,
     clean |-> clean, stale |-> stale]

NoTask ==
    Task("none", StrEmpty, JSNull, << >>, "idle", 0, {}, 0, JSNull, FALSE, 0, TRUE, FALSE)

HasMemory(Ls) == Len(Ls) > 0 /\ Ls[1].name = "memory"
MemoryKeys(Ls) == IF HasMemory(Ls) THEN MapKeys(Ls[1].cache) ELSE {}
Gone(Ls, Ls1) == MemoryKeys(Ls) \ MemoryKeys(Ls1)

InitWith(cfg, n) ==
    /\ now = 0
    /\ config = cfg
    /\ analytics = (IF cfg.analytics = None THEN TRUE ELSE cfg.analytics[1])
    /\ layers = CacheComposer_initializeLayers(cfg)
    /\ globalStats = [hits |-> 0, misses |-> 0, sets |-> 0, deletes |-> 0]
    /\ last = NoCall
    /\ lastSet = [k \in AllKeys |-> None]
    /\ budget = n
    /\ seen = [hits |-> 0, misses |-> 0, deleted |-> {}]
    /\ calls = [c \in 1..MaxInFlight |-> NoTask]
    /\ final = {}

Count(field) ==
    IF analytics THEN [globalStats EXCEPT ![field] = @ + 1] ELSE globalStats

\* the callers' own tally after gets of the key returned the values rets: a value is
\* a hit and a write of the key the caller may count on (promotion), null is a miss
SeenGets(key, rets) ==
    LET h == Cardinality({i \in 1..Len(rets) : rets[i] # JSNull})
    IN [seen EXCEPT !.hits = @ + h,
                    !.misses = @ + (Len(rets) - h),
                    !.deleted = IF h > 0 THEN @ \ {key} ELSE @]

Tick ==
    /\ now < MaxTime
    /\ now' = now + 1
    /\ UNCHANGED <<config, analytics, calls, final, layers, globalStats, last, lastSet, budget, seen>>

Get(key) ==
    /\ budget > 0
    /\ LET r == CacheComposer_get(layers, key, now) IN
       /\ layers' = r.layers
       /\ globalStats' = Count(IF r.ret # JSNull THEN "hits" ELSE "misses")
       /\ last' = Call("get", key, JSNull, NoOptions, now, r.ret, r.ret # JSNull,
                       0, << >>, r.hit, Gone(layers, r.layers))
    /\ budget' = budget - 1
    /\ seen' = SeenGets(key, <<CacheComposer_get(layers, key, now).ret>>)
    /\ UNCHANGED <<now, config, analytics, calls, final, lastSet>>

Set(key, value, options) ==
    /\ budget > 0
    /\ LET r == CacheComposer_set(layers, key, value, options, now) IN
       /\ layers' = r.layers
       /\ last' = Call("set", key, value, options, now, JSNull, TRUE,
                       0, << >>, 0, Gone(layers, r.layers))
    /\ globalStats' = Count("sets")
    /\ lastSet' = [lastSet EXCEPT ![key] = Some([at |-> now, value |-> value,
                                                options |-> options, budget |-> budget])]
    /\ budget' = budget - 1
    /\ seen' = [seen EXCEPT !.deleted = @ \ {key}]
    /\ UNCHANGED <<now, config, analytics, calls, final>>

Delete(key) ==
    /\ budget > 0
    /\ LET r == CacheComposer_delete(layers, key, now) IN
       /\ layers' = r.layers
       /\ last' = Call("delete", key, JSNull, NoOptions, now, JSNull, r.ret,
                       0, << >>, 0, Gone(layers, r.layers))
    /\ globalStats' = Count("deletes")
    /\ budget' = budget - 1
    /\ seen' = [seen EXCEPT !.deleted =
                    IF CacheComposer_delete(layers, key, now).ret THEN @ \cup {key} ELSE @]
    /\ UNCHANGED <<now, config, analytics, calls, final, lastSet>>

Clear ==
    /\ budget > 0
    /\ LET r == CacheComposer_clear(layers, now) IN
       /\ layers' = r.layers
       /\ last' = Call("clear", StrEmpty, JSNull, NoOptions, now, JSNull, TRUE,
                       0, << >>, 0, Gone(layers, r.layers))
    /\ budget' = budget - 1
    /\ UNCHANGED <<now, config, analytics, calls, final, globalStats, lastSet, seen>>

Has(key) ==
    /\ budget > 0
    /\ LET r == CacheComposer_has(layers, key, now) IN
       /\ layers' = r.layers
       /\ last' = Call("has", key, JSNull, NoOptions, now, JSNull, r.ret,
                       0, << >>, 0, Gone(layers, r.layers))
    /\ budget' = budget - 1
    /\ UNCHANGED <<now, config, analytics, calls, final, globalStats, lastSet, seen>>

DeleteByTag(tag) ==
    /\ budget > 0
    /\ LET r == CacheComposer_deleteByTag(layers, tag, now) IN
       /\ layers' = r.layers
       /\ last' = Call("deleteByTag", tag, JSNull, NoOptions, now, JSNull, TRUE,
                       r.ret, r.deleted, 0, Gone(layers, r.layers))
    /\ budget' = budget - 1
    /\ UNCHANGED <<now, config, analytics, calls, final, globalStats, lastSet, seen>>

\* counters that count whether or not analytics is enabled
CountIn_always(stats, field, n) == [stats EXCEPT ![field] = @ + n]

\* if (this.analytics) this.globalStats[field]++, n times over
CountIn(stats, field, n) ==
    IF analytics THEN [stats EXCEPT ![field] = @ + n] ELSE stats

\* the global counters after gets that returned the values rets
CountGets(stats, rets) ==
    LET h == Cardinality({i \in 1..Len(rets) : rets[i] # JSNull})
    IN CountIn(CountIn(stats, "hits", h), "misses", Len(rets) - h)

GetOrSet(key, loader, options) ==
    /\ budget > 0
    /\ LET r == CacheComposer_getOrSet(layers, key, loader, options, now) IN
       /\ layers' = r.layers
       /\ globalStats' = CountIn(CountGets(globalStats, <<r.got>>), "sets", r.sets)
       /\ last' = Call("getOrSet", key, loader.value, options, now, r.ret, ~r.threw,
                       r.loads, << >>, 0, Gone(layers, r.layers))
       /\ lastSet' = IF r.sets = 0 THEN lastSet
                     ELSE [lastSet EXCEPT ![key] =
                              Some([at |-> now, value |-> loader.value,
                                    options |-> options, budget |-> budget])]
       /\ seen' = [SeenGets(key, <<r.got>>) EXCEPT
                      !.deleted = IF r.sets = 0 THEN @ ELSE @ \ {key}]
    /\ budget' = budget - 1
    /\ UNCHANGED <<now, config, analytics, calls, final>>

\* the keys of a sequence of [key, value] pairs
PairKeys(entries) == {entries[i][1] : i \in 1..Len(entries)}

MSet(entries, options) ==
    /\ budget > 0
    /\ LET r == CacheComposer_mset(layers, entries, options, now) IN
       /\ layers' = r.layers
       /\ last' = Call("mset", StrEmpty, JSNull, options, now, JSNull, TRUE,
                       Len(entries), entries, 0, Gone(layers, r.layers))
    /\ globalStats' = CountIn(globalStats, "sets", Len(entries))
    /\ lastSet' = [k \in AllKeys |->
                      IF k \in PairKeys(entries)
                      THEN Some([at |-> now,
                                 value |-> entries[CHOOSE i \in 1..Len(entries) :
                                                       entries[i][1] = k][2],
                                 options |-> options, budget |-> budget])
                      ELSE lastSet[k]]
    /\ seen' = [seen EXCEPT !.deleted = @ \ PairKeys(entries)]
    /\ budget' = budget - 1
    /\ UNCHANGED <<now, config, analytics, calls, final>>

\* what an mget of `keys` leaves behind when the call came out as r
MGetReturns(keys, r) ==
    LET h == Cardinality({i \in 1..Len(keys) : r.rets[i] # JSNull}) IN
    /\ layers' = r.layers
    /\ globalStats' = CountGets(globalStats, r.rets)
    /\ last' = Call("mget", keys, JSNull, NoOptions, now, JSNull, TRUE,
                    Len(r.results), r.results, 0, Gone(layers, r.layers))
    /\ seen' = [seen EXCEPT !.hits = @ + h,
                            !.misses = @ + (Len(keys) - h),
                            !.deleted = @ \ {keys[i] : i \in {j \in 1..Len(keys) :
                                                                 r.rets[j] # JSNull}}]

MGet(keys, order) ==
    /\ budget > 0
    /\ MGetReturns(keys, CacheComposer_mget(layers, keys, order, now))
    /\ budget' = budget - 1
    /\ UNCHANGED <<now, config, analytics, calls, final, lastSet>>

ResetStats ==
    /\ budget > 0
    /\ globalStats' = CacheComposer_resetStats
    /\ last' = Call("resetStats", StrEmpty, JSNull, NoOptions, now, JSNull, TRUE,
                    0, << >>, 0, {})
    /\ seen' = [seen EXCEPT !.hits = 0, !.misses = 0]
    /\ budget' = budget - 1
    /\ UNCHANGED <<now, config, analytics, calls, final, layers, lastSet>>

----------------------------------------------------------------------------
Touch(key, ttl) ==
    /\ budget > 0
    /\ LET r == CacheComposer_touch(layers, key, ttl, now) IN
       /\ layers' = r.layers
       /\ globalStats' = CountIn(CountGets(globalStats, <<r.got>>), "sets", r.sets)
       /\ last' = Call("touch", key, r.got, CacheOptions(ttl, {}), now, r.got, r.ret,
                       0, << >>, r.hit, Gone(layers, r.layers))
       /\ lastSet' = IF r.sets = 0 THEN lastSet
                     ELSE [lastSet EXCEPT ![key] =
                              Some([at |-> now, value |-> r.got,
                                    options |-> CacheOptions(ttl, {}), budget |-> budget])]
       /\ seen' = SeenGets(key, <<r.got>>)
    /\ budget' = budget - 1
    /\ UNCHANGED <<now, config, analytics, calls, final>>

ListKeys ==
    /\ budget > 0
    /\ LET r == CacheComposer_keys(layers, now) IN
       /\ layers' = r.layers
       /\ last' = Call("keys", StrEmpty, JSNull, NoOptions, now, JSNull, TRUE,
                       Len(r.ret), r.ret, 0, Gone(layers, r.layers))
    /\ budget' = budget - 1
    /\ UNCHANGED <<now, config, analytics, calls, final, globalStats, lastSet, seen>>

Ttl(key) ==
    /\ budget > 0
    /\ LET r == CacheComposer_ttl(layers, key, now) IN
       /\ layers' = r.layers
       /\ last' = Call("ttl", key, JSNull, NoOptions, now, JSNull, r.ret # None,
                       IF r.ret = None THEN 0 ELSE r.ret[1], << >>, 0,
                       Gone(layers, r.layers))
    /\ budget' = budget - 1
    /\ UNCHANGED <<now, config, analytics, calls, final, globalStats, lastSet, seen>>

\* what an invalidatePattern leaves behind when the call came out as r
InvalidateReturns(pattern, r) ==
    /\ layers' = r.layers
    /\ globalStats' = CountIn(globalStats, "deletes", r.ret)
    /\ last' = Call("invalidatePattern", pattern, JSNull, NoOptions, now, JSNull, TRUE,
                    r.ret, r.matching, 0, Gone(layers, r.layers))

InvalidatePattern(pattern) ==
    /\ budget > 0
    /\ InvalidateReturns(pattern, CacheComposer_invalidatePattern(layers, pattern, now))
    /\ budget' = budget - 1
    /\ UNCHANGED <<now, config, analytics, calls, final, lastSet, seen>>

\* which layers' backends failed during the call, layer by layer
DownFlags(Ls, down) == [i \in 1..Len(Ls) |-> Ls[i].name \in down]

\* the calls below run while the backends of the layers in `down` fail; a call
\* that ends in an exception leaves JSError in last.ret
GetWith(key, down) ==
    /\ budget > 0
    /\ LET r == CacheComposer_getWith(layers, key, now, down) IN
       /\ layers' = r.layers
       /\ globalStats' = (IF r.hit # 0 THEN Count("hits")
                          ELSE IF r.threw THEN globalStats ELSE Count("misses"))
       /\ last' = Call("get", key, JSNull, NoOptions, now, r.ret, ~r.threw /\ r.ret # JSNull,
                       0, DownFlags(layers, down), r.hit, Gone(layers, r.layers))
       /\ seen' = SeenGets(key, IF r.threw THEN << >> ELSE <<r.ret>>)
    /\ budget' = budget - 1
    /\ UNCHANGED <<now, config, analytics, calls, final, lastSet>>

SetWith(key, value, options, down) ==
    /\ budget > 0
    /\ LET r == CacheComposer_setWith(layers, key, value, options, now, down) IN
       /\ layers' = r.layers
       /\ last' = Call("set", key, value, options, now,
                       IF r.threw THEN JSError ELSE JSNull, ~r.threw,
                       0, DownFlags(layers, down), 0, Gone(layers, r.layers))
    /\ globalStats' = Count("sets")
    /\ lastSet' = [lastSet EXCEPT ![key] = Some([at |-> now, value |-> value,
                                                options |-> options, budget |-> budget])]
    /\ budget' = budget - 1
    /\ seen' = [seen EXCEPT !.deleted = @ \ {key}]
    /\ UNCHANGED <<now, config, analytics, calls, final>>

DeleteWith(key, down) ==
    /\ budget > 0
    /\ LET r == CacheComposer_deleteWith(layers, key, now, down) IN
       /\ layers' = r.layers
       /\ last' = Call("delete", key, JSNull, NoOptions, now,
                       IF r.threw THEN JSError ELSE JSNull, ~r.threw /\ r.ret,
                       0, DownFlags(layers, down), 0, Gone(layers, r.layers))
       /\ seen' = [seen EXCEPT !.deleted = IF ~r.threw /\ r.ret THEN @ \cup {key} ELSE @]
    /\ globalStats' = Count("deletes")
    /\ budget' = budget - 1
    /\ UNCHANGED <<now, config, analytics, calls, final, lastSet>>

(* Calls in flight.  A Composer method runs from one await to the next      *)
(* without interruption; between two awaits the steps of other calls may    *)
(* fall.  A MemoryLayer method holds no await: its whole effect happens     *)
(* where it is called.  A RedisLayer or FileLayer method awaits its backend:*)
(* its effect is one later step, and the caller goes on from there.         *)

Sync(L) == L.name = "memory"

\* the layer requests of a fan-out that await a backend: pairs of entry and layer
Pending(Ls, n) == {<<e, i>> : e \in 1..n, i \in {j \in 1..Len(Ls) : ~Sync(Ls[j])}}

\* set / mset: the Composer.set of each entry, in order, up to its await: the
\* set of every layer that holds no await
RECURSIVE SetSync(_, _, _)
SetSync(Ls, entries, t) ==
    IF entries = << >> THEN Ls
    ELSE SetSync([i \in 1..Len(Ls) |->
                     IF Sync(Ls[i])
                     THEN Layer_set(Ls[i], Head(entries)[1], Head(entries)[2],
                                    NoOptions, t).layer
                     ELSE Ls[i]],
                 Tail(entries), t)

\* the keys a call in flight writes or may yet write
TaskWrites(task) ==
    IF task.op \in {"set", "mset"} THEN PairKeys(task.entries)
    ELSE IF task.op = "getOrSet" THEN {task.key}
    ELSE {}

WriteInFlight(c, key) ==
    \E d \in DOMAIN calls \ {c} : calls[d].pc # "idle" /\ key \in TaskWrites(calls[d])

\* what a call leaves in `last` when it returns
Returns(task, ret, ok, hit, Ls1) ==
    Call(task.op,
         IF task.op = "mset" THEN StrEmpty ELSE task.key,
         IF task.op \in {"set", "getOrSet"} THEN task.value ELSE JSNull,
         NoOptions, now, ret, ok,
         IF task.op = "mset" THEN Len(task.entries) ELSE task.loads,
         IF task.op = "mset" THEN task.entries ELSE << >>,
         hit, Gone(layers, Ls1))

\* the calls in flight once call c is at `task` and writes of `keys` were issued:
\* a delete of one of these keys, still in flight, is no longer clean
Others(c, task, keys) ==
    [d \in DOMAIN calls |->
        IF d = c THEN task
        ELSE IF calls[d].op = "delete" /\ calls[d].key \in keys
        THEN [calls[d] EXCEPT !.clean = FALSE]
        ELSE calls[d]]

\* the [key, value] pairs a call that has returned wrote through Composer.set
Written(call) ==
    IF call.op = "mset" THEN call.per
    ELSE IF call.op = "set" \/ (call.op = "getOrSet" /\ call.hit = 0)
    THEN <<<<call.key, call.value>>>>
    ELSE << >>

\* the calls in flight once `call` has returned: a get that has read a value and
\* is still promoting it, while a set of its key with another value returned
Overtaken(cs, call) ==
    [d \in DOMAIN cs |->
        IF /\ cs[d].pc = "promote"
           /\ \E i \in 1..Len(Written(call)) :
                  Written(call)[i][1] = cs[d].key /\ Written(call)[i][2] # cs[d].got
        THEN [cs[d] EXCEPT !.stale = TRUE]
        ELSE cs[d]]

Complete(c, call, keys) ==
    /\ last' = call
    /\ calls' = Overtaken(Others(c, NoTask, keys), call)

Suspend(c, task, keys) ==
    /\ calls' = Others(c, task, keys)
    /\ last' = last

\* a new call takes the first free place among the calls in flight
Free(c) == calls[c].pc = "idle" /\ \A d \in 1..(c - 1) : calls[d].pc # "idle"

\* a set, an mset, or the set that ends a getOrSet, from its call to its await
StartSet(c, task) ==
    LET Ls1 == SetSync(layers, task.entries, now)
        todo == Pending(layers, Len(task.entries))
    IN /\ layers' = Ls1
       /\ globalStats' = CountIn(globalStats, "sets", Len(task.entries))
       /\ lastSet' = [k \in AllKeys |->
                         IF k \in PairKeys(task.entries)
                         THEN Some([at |-> now,
                                    value |-> task.entries[CHOOSE i \in 1..Len(task.entries) :
                                                               task.entries[i][1] = k][2],
                                    options |-> NoOptions, budget |-> budget])
                         ELSE lastSet[k]]
       /\ seen' = [seen EXCEPT !.deleted = @ \ PairKeys(task.entries)]
       /\ final' = final \ PairKeys(task.entries)
       /\ IF todo = {}
          THEN Complete(c, Returns(task, IF task.op = "getOrSet" THEN task.value ELSE JSNull,
                                   TRUE, 0, Ls1), PairKeys(task.entries))
          ELSE Suspend(c, [task EXCEPT !.pc = "fanout", !.todo = todo],
                       PairKeys(task.entries))

IssueSet(c, op, entries) ==
    /\ budget > 0 /\ Free(c)
    /\ op = (IF Len(entries) = 1 THEN "set" ELSE "mset")
    /\ StartSet(c, Task(op, entries[1][1], entries[1][2], entries, "idle", 0, {}, 0,
                        JSNull, FALSE, 0, TRUE, FALSE))
    /\ budget' = budget - 1
    /\ UNCHANGED <<now, config, analytics>>

\* a getOrSet that joins the load of another call for the same key instead of
\* invoking its own loader
LoaderStarts_shared(c, task) ==
    IF \E d \in DOMAIN calls \ {c} :
           calls[d].op = "getOrSet" /\ calls[d].key = task.key /\ calls[d].pc = "load"
    THEN [task EXCEPT !.pc = "load",
                      !.value = calls[CHOOSE d \in DOMAIN calls \ {c} :
                                         /\ calls[d].op = "getOrSet"
                                         /\ calls[d].key = task.key
                                         /\ calls[d].pc = "load"].value]
    ELSE [task EXCEPT !.pc = "load", !.loads = @ + 1]

\* getOrSet after a get that returned null: `await loader()`, the call's own loader
LoaderStarts(c, task) == [task EXCEPT !.pc = "load", !.loads = @ + 1]

\* the call's get asks layer task.at and runs on to its next await
Probe(c, task) ==
    LET i == task.at
        r == Layer_get(layers[i], task.key, now)
        Ls1 == [layers EXCEPT ![i] = r.layer]
    IN IF r.ret # JSNull
       THEN LET first == i > 1 /\ Sync(Ls1[1])
                Ls2 == IF first
                       THEN [Ls1 EXCEPT ![1] = Layer_set(@, task.key, r.ret, NoOptions, now).layer]
                       ELSE Ls1
                j == IF first THEN 2 ELSE 1
            IN /\ layers' = Ls2
               /\ globalStats' = Count("hits")
               /\ IF j < i
                  THEN /\ Suspend(c, [task EXCEPT !.pc = "promote", !.at = j,
                                                  !.hit = i, !.got = r.ret], {})
                       /\ seen' = seen
                  ELSE /\ Complete(c, Returns(task, r.ret, TRUE, i, Ls2), {})
                       /\ seen' = SeenGets(task.key, <<r.ret>>)
       ELSE IF i < Len(layers)
       THEN /\ layers' = Ls1
            /\ Suspend(c, [task EXCEPT !.pc = "probe", !.at = i + 1], {})
            /\ UNCHANGED <<globalStats, seen>>
       ELSE /\ layers' = Ls1
            /\ globalStats' = Count("misses")
            /\ seen' = SeenGets(task.key, <<JSNull>>)
            /\ IF task.op = "get"
               THEN Complete(c, Returns(task, JSNull, FALSE, 0, Ls1), {})
               ELSE Suspend(c, LoaderStarts(c, task), {})

\* get(key), or getOrSet(key, loader) with a loader that resolves to value; the
\* first layer is the memory layer, which answers within the call
IssueGet(c, op, key, value) ==
    /\ budget > 0 /\ Free(c)
    /\ HasMemory(layers)
    /\ Probe(c, Task(op, key, value, <<<<key, value>>>>, "probe", 1, {}, 0, JSNull, FALSE, 0,
                     TRUE, FALSE))
    /\ final' = (IF op = "getOrSet" THEN final \ {key} ELSE final)
    /\ budget' = budget - 1
    /\ UNCHANGED <<now, config, analytics, lastSet>>

\* the layer a get awaits answers
ProbeStep(c) ==
    /\ calls[c].pc = "probe"
    /\ Probe(c, calls[c])
    /\ UNCHANGED <<now, config, analytics, lastSet, budget, final>>

\* the set that a get's promotion loop awaits is done
PromoteStep(c) ==
    /\ calls[c].pc = "promote"
    /\ LET task == calls[c]
           j == task.at
           Ls1 == [layers EXCEPT ![j] = Layer_set(@, task.key, task.got, NoOptions, now).layer]
       IN /\ layers' = Ls1
          /\ IF j + 1 < task.hit
             THEN Suspend(c, [task EXCEPT !.at = j + 1], {}) /\ seen' = seen
             ELSE /\ Complete(c, Returns(task, task.got, TRUE, task.hit, Ls1), {})
                  /\ seen' = SeenGets(task.key, <<task.got>>)
    /\ UNCHANGED <<now, config, analytics, globalStats, lastSet, budget, final>>

\* the loader of a getOrSet resolves and the call goes on to its set
Loaded(c) ==
    /\ calls[c].pc = "load"
    /\ StartSet(c, [calls[c] EXCEPT !.entries = <<<<calls[c].key, calls[c].value>>>>])
    /\ UNCHANGED <<now, config, analytics, budget>>

\* a delete that has returned makes its key final if no write of the key was in
\* flight or issued while it ran
Finalise(task) == IF task.clean THEN final \cup {task.key} ELSE final

IssueDelete(c, key) ==
    /\ budget > 0 /\ Free(c)
    /\ LET results == [i \in 1..Len(layers) |-> Layer_delete(layers[i], key, now)]
           Ls1 == [i \in 1..Len(layers) |->
                      IF Sync(layers[i]) THEN results[i].layer ELSE layers[i]]
           any == \E i \in 1..Len(layers) : Sync(layers[i]) /\ results[i].ret
           todo == Pending(layers, 1)
           task == Task("delete", key, JSNull, << >>, "fanout", 0, todo, 0, JSNull, any, 0,
                        ~WriteInFlight(c, key), FALSE)
       IN /\ layers' = Ls1
          /\ IF todo = {}
             THEN /\ Complete(c, Returns(task, JSNull, any, 0, Ls1), {})
                  /\ seen' = [seen EXCEPT !.deleted = IF any THEN @ \cup {key} ELSE @]
                  /\ final' = Finalise(task)
             ELSE Suspend(c, task, {}) /\ UNCHANGED <<seen, final>>
    /\ globalStats' = Count("deletes")
    /\ budget' = budget - 1
    /\ UNCHANGED <<now, config, analytics, lastSet>>

\* a backend answers one of the layer requests of a set, mset or delete
FanoutStep(c, item) ==
    /\ calls[c].pc = "fanout"
    /\ item \in calls[c].todo
    /\ LET task == calls[c]
           i == item[2]
           r == IF task.op = "delete"
                THEN Layer_delete(layers[i], task.key, now)
                ELSE Layer_set(layers[i], task.entries[item[1]][1],
                               task.entries[item[1]][2], NoOptions, now)
           Ls1 == [layers EXCEPT ![i] = r.layer]
           any == task.any \/ (task.op = "delete" /\ r.ret)
           todo == task.todo \ {item}
       IN /\ layers' = Ls1
          /\ IF todo # {}
             THEN Suspend(c, [task EXCEPT !.todo = todo, !.any = any], {})
                  /\ UNCHANGED <<seen, final>>
             ELSE IF task.op = "delete"
             THEN /\ Complete(c, Returns(task, JSNull, any, 0, Ls1), {})
                  /\ seen' = [seen EXCEPT !.deleted = IF any THEN @ \cup {task.key} ELSE @]
                  /\ final' = Finalise(task)
             ELSE /\ Complete(c, Returns(task, IF task.op = "getOrSet" THEN task.value
                                               ELSE JSNull, TRUE, 0, Ls1), {})
                  /\ UNCHANGED <<seen, final>>
    /\ UNCHANGED <<now, config, analytics, globalStats, lastSet, budget>>

(* Configurations and specifications *)

Config(memory, redis, file) ==
    [memory |-> memory, redis |-> redis, file |-> file, analytics |-> None]

MemoryOff == Some(LayerConfig(FALSE, None, None, None))
MemoryOf(maxSize, type) == Some(LayerConfig(TRUE, Some(maxSize), None, Some([type |-> type])))
RedisOn == Some([enabled |-> TRUE, client |-> TRUE, ttl |-> None])
FileOn == Some([enabled |-> TRUE, ttl |-> None])

\* the memory layer, holding one entry, over every combination of the other two
MemoryFirstConfigs ==
    {Config(MemoryOf(1, "lru"), r, f) : r \in {None, RedisOn}, f \in {None, FileOn}}

\* every combination of layers, the memory layer holding one entry
LayerConfigs ==
    {Config(m, r, f) : m \in {MemoryOff, MemoryOf(1, "lru")},
                       r \in {None, RedisOn},
                       f \in {None, FileOn}}

\* the memory layer alone, as in the default configuration, holding one or two entries
MemoryConfigs ==
    {Config(MemoryOf(n, type), None, None) : n \in {1, 2}, type \in {"lru", "lfu", "manual"}}

Keys == {StrAa, StrC}
KeysMem == {StrEmpty, StrAa, StrC}
Values == {"v1", JSNaN}
Ttls == {None, Some(1)}
Tags == {TagA, TagB}
TagSets == {{}, {TagA}, {TagB}, {TagA, TagB}}

(* Spec: every layer configuration; set, get, has, delete and clear with and *)
(* without a TTL, and the clock                                              *)
Init == \E cfg \in LayerConfigs : InitWith(cfg, MaxCalls)

Next ==
    \/ Tick
    \/ \E k \in Keys, v \in Values, ttl \in Ttls : Set(k, v, CacheOptions(ttl, {}))
    \/ \E k \in Keys : Get(k)
    \/ \E k \in Keys : Has(k)
    \/ \E k \in Keys : Delete(k)
    \/ Clear

Spec == Init /\ [][Next]_vars

(* SpecTtl: the memory layer over the other layers; longer runs of set and get *)
(* under the clock                                                            *)
InitTtl == \E cfg \in MemoryFirstConfigs : InitWith(cfg, MaxCallsTtl)

NextTtl ==
    \/ Tick
    \/ \E k \in Keys, ttl \in Ttls : Set(k, "v1", CacheOptions(ttl, {}))
    \/ \E k \in Keys : Get(k)

SpecTtl == InitTtl /\ [][NextTtl]_vars

(* SpecMem: the memory layer alone, every call of the Composer on it *)
InitMem == \E cfg \in MemoryConfigs : InitWith(cfg, MaxCallsMem)

NextMem ==
    \/ Tick
    \/ \E k \in KeysMem : Set(k, "v1", NoOptions)
    \/ \E k \in KeysMem : Get(k)
    \/ \E k \in KeysMem : Has(k)
    \/ \E k \in KeysMem : Delete(k)
    \/ DeleteByTag(TagA)
    \/ Clear

SpecMem == InitMem /\ [][NextMem]_vars

(* SpecLfu: a memory layer of two entries under 'lfu'; set and get only *)
InitLfu == InitWith(Config(MemoryOf(2, "lfu"), None, None), MaxCallsLfu)

NextLfu ==
    \/ \E k \in KeysMem : Set(k, "v1", NoOptions)
    \/ \E k \in KeysMem : Get(k)

SpecLfu == InitLfu /\ [][NextLfu]_vars

(* SpecTags: every layer configuration, the memory layer with its default  *)
(* capacity; tagged writes, delete and deleteByTag                          *)
TagConfigs ==
    {Config(m, r, f) : m \in {MemoryOff, None}, r \in {None, RedisOn}, f \in {None, FileOn}}

InitTags == \E cfg \in TagConfigs : InitWith(cfg, MaxCallsTags)

NextTags ==
    \/ \E k \in Keys, tags \in TagSets : Set(k, "v1", CacheOptions(None, tags))
    \/ \E k \in Keys : Delete(k)
    \/ \E tag \in Tags : DeleteByTag(tag)

SpecTags == InitTags /\ [][NextTags]_vars

(* SpecLoad: the memory layer with its default capacity over every combination *)
(* of the other two; getOrSet with loaders that resolve (to a value or to     *)
(* null) or reject, next to set and get                                       *)
LoadConfigs == {Config(None, r, f) : r \in {None, RedisOn}, f \in {None, FileOn}}

Loaders == {Loader(FALSE, "v1"), Loader(FALSE, "v2"), Loader(FALSE, JSNull),
            Loader(TRUE, JSError)}

InitLoad == \E cfg \in LoadConfigs : InitWith(cfg, MaxCallsLoad)

NextLoad ==
    \/ \E k \in Keys, loader \in Loaders : GetOrSet(k, loader, NoOptions)
    \/ \E k \in Keys, v \in {"v1", JSNull} : Set(k, v, NoOptions)
    \/ \E k \in Keys : Get(k)

SpecLoad == InitLoad /\ [][NextLoad]_vars

(* SpecFile: the file layer, alone and under the default memory layer, and the *)
(* memory layer alone; set, get and delete of two keys with the same hashKey   *)
FileConfigs == {Config(MemoryOff, None, FileOn), Config(None, None, FileOn),
                Config(None, None, None)}

KeysFile == {StrAa, StrBB}

InitFile == \E cfg \in FileConfigs : InitWith(cfg, MaxCallsFile)

NextFile ==
    \/ \E k \in KeysFile : Set(k, "v1", NoOptions)
    \/ \E k \in KeysFile : Get(k)
    \/ \E k \in KeysFile : Delete(k)

SpecFile == InitFile /\ [][NextFile]_vars

(* SpecMulti: a memory layer of one or two entries, alone and over the file   *)
(* layer, and the file layer alone; mset and mget of one or two keys, in      *)
(* every order of the array and of completion, next to single sets            *)
MultiConfigs == {Config(MemoryOf(1, "lru"), None, None),
                 Config(MemoryOf(2, "lru"), None, None),
                 Config(MemoryOf(1, "lru"), None, FileOn),
                 Config(MemoryOf(2, "lru"), None, FileOn),
                 Config(MemoryOff, None, FileOn)}

ValuesMulti == {"v1", "v2", JSNull}

\* the arrays of one or two distinct keys
KeyArrays ==
    {<<k>> : k \in Keys} \cup {a \in Keys \X Keys : a[1] # a[2]}

\* the Maps of one or two entries, as the sequence of their pairs
EntryMaps ==
    {<<<<k, v>>>> : k \in Keys, v \in ValuesMulti}
    \cup {<<<<ks[1], v1>>, <<ks[2], v2>>>> :
              ks \in {a \in KeyArrays : Len(a) = 2}, v1 \in ValuesMulti, v2 \in ValuesMulti}

\* the orders in which the gets of an mget may complete
Orders(keys) == {o \in KeyArrays : Len(o) = Len(keys) /\
                                   {o[i] : i \in 1..Len(o)} = {keys[i] : i \in 1..Len(keys)}}

InitMulti == \E cfg \in MultiConfigs : InitWith(cfg, MaxCallsMulti)

NextMulti ==
    \/ \E entries \in EntryMaps : MSet(entries, NoOptions)
    \/ \E keys \in KeyArrays : \E order \in Orders(keys) : MGet(keys, order)
    \/ \E k \in Keys : Set(k, "v1", NoOptions)

SpecMulti == InitMulti /\ [][NextMulti]_vars

(* SpecStats: the default memory layer with analytics on (the default) and   *)
(* off; gets that hit and miss, directly and inside getOrSet, and resetStats *)
StatsConfigs ==
    {[Config(None, None, None) EXCEPT !.analytics = a] : a \in {None, Some(FALSE)}}

InitStats == \E cfg \in StatsConfigs : InitWith(cfg, MaxCallsStats)

NextStats ==
    \/ \E k \in Keys : Set(k, "v1", NoOptions)
    \/ \E k \in Keys : Get(k)
    \/ \E k \in Keys : GetOrSet(k, Loader(FALSE, "v1"), NoOptions)
    \/ \E k \in Keys : Delete(k)
    \/ ResetStats

SpecStats == InitStats /\ [][NextStats]_vars

(* SpecEntry: every layer configuration; set with no TTL, a zero, a positive *)
(* and a negative one, get, and the clock                                    *)
TtlsEntry == {None, Some(0), Some(1), Some(-1)}

InitEntry == \E cfg \in LayerConfigs : InitWith(cfg, MaxCallsEntry)

NextEntry ==
    \/ Tick
    \/ \E k \in Keys, ttl \in TtlsEntry : Set(k, "v1", CacheOptions(ttl, {}))
    \/ \E k \in Keys : Get(k)

SpecEntry == InitEntry /\ [][NextEntry]_vars

(* SpecFail: every layer configuration; set, get and delete while the Redis  *)
(* client, the file system, both or neither fail                             *)
Downs == SUBSET {"redis", "file"}

InitFail == \E cfg \in LayerConfigs : InitWith(cfg, MaxCallsFail)

NextFail ==
    \/ \E k \in Keys, v \in Values, down \in Downs : SetWith(k, v, NoOptions, down)
    \/ \E k \in Keys, down \in Downs : GetWith(k, down)
    \/ \E k \in Keys, down \in Downs : DeleteWith(k, down)

SpecFail == InitFail /\ [][NextFail]_vars

(* SpecTouch: every layer configuration, the memory layer holding one entry; *)
(* set, get and touch with no TTL, a zero and positive ones, and the clock   *)
TtlsTouch == {None, Some(0), Some(1), Some(2)}

InitTouch == \E cfg \in LayerConfigs : InitWith(cfg, MaxCallsTouch)

NextTouch ==
    \/ Tick
    \/ \E k \in Keys, v \in Values, ttl \in Ttls : Set(k, v, CacheOptions(ttl, {}))
    \/ \E k \in Keys : Get(k)
    \/ \E k \in Keys, ttl \in TtlsTouch : Touch(k, ttl)

SpecTouch == InitTouch /\ [][NextTouch]_vars

(* SpecLazy: the memory layer alone, holding one or two entries under 'lru'; *)
(* entries that expire after one tick, every call of the Composer, the clock *)
LazyConfigs == {Config(MemoryOf(n, "lru"), None, None) : n \in {1, 2}}

InitLazy == \E cfg \in LazyConfigs : InitWith(cfg, MaxCallsLazy)

NextLazy ==
    \/ Tick
    \/ \E k \in Keys, ttl \in Ttls : Set(k, "v1", CacheOptions(ttl, {}))
    \/ \E k \in Keys : Get(k)
    \/ \E k \in Keys : Has(k)
    \/ \E k \in Keys : Delete(k)
    \/ Clear

SpecLazy == InitLazy /\ [][NextLazy]_vars

(* SpecPromo: layers over the file layer, the Redis layer with the default   *)
(* TTL or a TTL of one tick, the memory layer holding one entry; tagged and  *)
(* untagged set with and without a TTL, get, deleteByTag and the clock       *)
RedisOf(ttl) == Some([enabled |-> TRUE, client |-> TRUE, ttl |-> ttl])

PromoConfigs ==
    {Config(MemoryOf(1, "lru"), None, FileOn)}
    \cup {Config(m, RedisOf(ttl), FileOn) :
              m \in {MemoryOff, MemoryOf(1, "lru")}, ttl \in {None, Some(1)}}

InitPromo == \E cfg \in PromoConfigs : InitWith(cfg, MaxCallsPromo)

NextPromo ==
    \/ Tick
    \/ \E k \in Keys, ttl \in Ttls, tags \in {{}, {TagA}} :
           Set(k, "v1", CacheOptions(ttl, tags))
    \/ \E k \in Keys : Get(k)
    \/ DeleteByTag(TagA)

SpecPromo == InitPromo /\ [][NextPromo]_vars

(* SpecRace: a memory layer of one entry, alone, over the file layer and     *)
(* over both other layers; set, mset, get, getOrSet and delete issued while  *)
(* other calls are in flight, their steps interleaved in every order         *)
RaceConfigs ==
    {Config(MemoryOf(1, "lru"), None, None),
     Config(MemoryOf(1, "lru"), None, FileOn),
     Config(MemoryOf(1, "lru"), RedisOn, FileOn)}

KeysRace == {StrEmpty, StrC}

EntriesRace == {<<<<k, "v1">>>> : k \in KeysRace} \cup {<<<<StrC, "v1">>, <<StrEmpty, "v1">>>>}

\* each call's loader resolves to a value of its own
LoaderValue(c) == IF c = 1 THEN "v1" ELSE "v2"

InitRace == \E cfg \in RaceConfigs : InitWith(cfg, MaxCallsRace)

NextRace ==
    \E c \in 1..MaxInFlight :
        \/ \E entries \in EntriesRace :
               IssueSet(c, IF Len(entries) = 1 THEN "set" ELSE "mset", entries)
        \/ \E k \in KeysRace : IssueGet(c, "get", k, JSNull)
        \/ \E k \in KeysRace : IssueGet(c, "getOrSet", k, LoaderValue(c))
        \/ \E k \in KeysRace : IssueDelete(c, k)
        \/ ProbeStep(c)
        \/ PromoteStep(c)
        \/ Loaded(c)
        \/ \E item \in calls[c].todo : FanoutStep(c, item)

SpecRace == InitRace /\ [][NextRace]_vars

(* SpecStale: sets and gets of one key in flight together; the memory layer  *)
(* holds one entry, so that an mset of two keys leaves the first of them in  *)
(* the slower layers only, and a later set writes another value              *)
StaleConfigs ==
    {Config(MemoryOf(1, "lru"), None, FileOn),
     Config(MemoryOf(1, "lru"), RedisOn, FileOn)}

EntriesStale ==
    {<<<<StrC, "v1">>>>, <<<<StrC, "v2">>>>, <<<<StrC, "v1">>, <<StrEmpty, "v1">>>>}

InitStale == \E cfg \in StaleConfigs : InitWith(cfg, MaxCallsStale)

NextStale ==
    \E c \in 1..MaxInFlight :
        \/ \E entries \in EntriesStale :
               IssueSet(c, IF Len(entries) = 1 THEN "set" ELSE "mset", entries)
        \/ IssueGet(c, "get", StrC, JSNull)
        \/ ProbeStep(c)
        \/ PromoteStep(c)
        \/ \E item \in calls[c].todo : FanoutStep(c, item)

SpecStale == InitStale /\ [][NextStale]_vars

(* SpecRetag: every layer configuration; set with and without a tag, touch   *)
(* with and without a TTL, deleteByTag                                       *)
InitRetag == \E cfg \in LayerConfigs : InitWith(cfg, MaxCallsRetag)

NextRetag ==
    \/ \E k \in Keys, tags \in {{}, {TagA}} : Set(k, "v1", CacheOptions(None, tags))
    \/ \E k \in Keys, ttl \in Ttls : Touch(k, ttl)
    \/ DeleteByTag(TagA)

SpecRetag == InitRetag /\ [][NextRetag]_vars

(* SpecCount: the memory layer of one entry, alone and over the file layer,  *)
(* with analytics on (the default) and off; every call that issues a get,    *)
(* and has, keys and ttl                                                     *)
CountConfigs ==
    {[Config(MemoryOf(1, "lru"), None, f) EXCEPT !.analytics = a] :
         f \in {None, FileOn}, a \in {None, Some(FALSE)}}

InitCount == \E cfg \in CountConfigs : InitWith(cfg, MaxCallsCount)

NextCount ==
    \/ \E k \in Keys : Set(k, "v1", NoOptions)
    \/ \E k \in Keys : Get(k)
    \/ \E k \in Keys : GetOrSet(k, Loader(FALSE, "v1"), NoOptions)
    \/ \E order \in Orders(<<StrAa, StrC>>) : MGet(<<StrAa, StrC>>, order)
    \/ \E k \in Keys : Touch(k, None)
    \/ \E k \in Keys : Has(k)
    \/ \E k \in Keys : Ttl(k)
    \/ \E k \in Keys : Delete(k)
    \/ ListKeys

SpecCount == InitCount /\ [][NextCount]_vars

(* SpecInval: every layer configuration, the memory layer holding two        *)
(* entries; set, delete, and invalidatePattern with the patterns /C/, /a/    *)
(* and /(?:)/, which every key matches                                       *)
InvalConfigs ==
    {Config(m, r, f) : m \in {MemoryOff, MemoryOf(2, "lru")},
                       r \in {None, RedisOn},
                       f \in {None, FileOn}}

Patterns == {<<67>>, <<97>>, << >>}

InitInval == \E cfg \in InvalConfigs : InitWith(cfg, MaxCallsInval)

NextInval ==
    \/ \E k \in Keys : Set(k, "v1", NoOptions)
    \/ \E k \in Keys : Delete(k)
    \/ \E pattern \in Patterns : InvalidatePattern(pattern)

SpecInval == InitInval /\ [][NextInval]_vars

----------------------------------------------------------------------------
(* What the claims speak of *)

\* the entry a layer holds for the key at time t, if any
LayerEntry(L, key, t) ==
    CASE L.name = "memory" ->
             IF MapHas(L.cache, key) THEN Some(MapGet(L.cache, key)) ELSE None
      [] L.name = "redis" ->
             LET db == RedisLive(L.client, t)
                 k == RedisLayer_getKey(L, key)
             IN IF k \in DOMAIN db THEN Some(db[k].data) ELSE None
      [] L.name = "file" ->
             IF FileLayer_getFilePath(key) \in DOMAIN L.files
             THEN Some(L.files[FileLayer_getFilePath(key)])
             ELSE None

Expired(entry, t) == entry.expiresAt < t

\* the step is a Composer call of this kind on this key (or tag)
IsCall(op, key) == budget' = budget - 1 /\ last'.op = op /\ last'.key = key

\* the last call was a get of a key whose set was the call just before it
GetFollowsSet ==
    /\ last.op = "get"
    /\ lastSet[last.key] # None
    /\ lastSet[last.key][1].budget = budget + 2

\* at the time of the last call, the TTL of the key's last set had not run out in any layer
TtlNotElapsed ==
    \A i \in 1..Len(layers) :
        last.at - lastSet[last.key][1].at
            < TtlOrDefault(lastSet[last.key][1].options, layers[i].defaultTTL)

----------------------------------------------------------------------------
(* C1 as stated: in every layer configuration, a get that directly follows   *)
(* set(k, v), before the TTL has run out, returns v.                         *)
C1_SetThenGet_EveryConfiguration ==
    (GetFollowsSet /\ TtlNotElapsed) => last.ret = lastSet[last.key][1].value

\* the value of the key's last set comes back from JSON as it went in
SurvivesJson ==
    LET v == lastSet[last.key][1].value
    IN JsonRoundTrip([value |-> v]).value = v

(* C1 as amended: with at least one layer enabled, a get that directly       *)
(* follows set(k, v), before the TTL has run out, returns v, provided the    *)
(* memory layer is enabled or v survives JSON.stringify and JSON.parse.      *)
C1_SetThenGet_Stored ==
    ( /\ Len(layers) > 0
      /\ GetFollowsSet
      /\ TtlNotElapsed
      /\ (HasMemory(layers) \/ SurvivesJson) )
    => last.ret = lastSet[last.key][1].value

\* a get right after set(k, NaN), behind a memory layer with Redis and a file
\* layer under it, has returned NaN
C1_Witness ==
    /\ Len(layers) = 3
    /\ HasMemory(layers)
    /\ GetFollowsSet
    /\ TtlNotElapsed
    /\ lastSet[last.key][1].value = JSNaN
    /\ last.ret = JSNaN

(* C2: behind a memory layer, a get of a key that the memory layer does not  *)
(* hold and the next layer holds unexpired returns that layer's value, and   *)
(* afterwards the memory layer holds the key with that value.                *)
C2_Promotion ==
    [][\A k \in AllKeys :
        ( /\ IsCall("get", k)
          /\ HasMemory(layers)
          /\ Len(layers) >= 2
          /\ LayerEntry(layers[1], k, now) = None
          /\ LayerEntry(layers[2], k, now) # None
          /\ ~Expired(LayerEntry(layers[2], k, now)[1], now)
          /\ LayerEntry(layers[2], k, now)[1].value # JSNull )
        => /\ last'.ret = LayerEntry(layers[2], k, now)[1].value
           /\ LayerEntry(layers'[1], k, now) # None
           /\ LayerEntry(layers'[1], k, now)[1].value
                  = LayerEntry(layers[2], k, now)[1].value]_vars

\* a get was answered by the layer under the memory layer after an eviction had
\* removed the key from the memory layer, which now holds it again
C2_Witness ==
    /\ HasMemory(layers)
    /\ last.op = "get"
    /\ last.hit = 2
    /\ layers[1].stats.size = 1
    /\ lastSet[last.key] # None
    /\ \E k \in AllKeys \ {last.key} :
           lastSet[k] # None /\ lastSet[k][1].budget < lastSet[last.key][1].budget
    /\ LayerEntry(layers[1], last.key, last.at) # None
    /\ LayerEntry(layers[1], last.key, last.at)[1].value = last.ret

(* C3 as stated: once more than t has passed since the last set(k, v,        *)
(* {ttl: t}) (t > 0), every get(k) reports k absent.                         *)
C3_AbsentAfterTtl ==
    ( /\ last.op = "get"
      /\ lastSet[last.key] # None
      /\ lastSet[last.key][1].options.ttl # None
      /\ lastSet[last.key][1].options.ttl[1] > 0
      /\ last.at > lastSet[last.key][1].at + lastSet[last.key][1].options.ttl[1] )
    => last.ret = JSNull

(* C4 as stated: a has(k) that answers true found, in some layer, an entry   *)
(* for k that had not expired.                                               *)
C4_HasReportsExpiry ==
    (last.op = "has" /\ last.ok)
    => \E i \in 1..Len(layers) :
           /\ LayerEntry(layers[i], last.key, last.at) # None
           /\ ~Expired(LayerEntry(layers[i], last.key, last.at)[1], last.at)

(* C5 as stated: the memory layer never holds more than maxSize entries.     *)
C5_CapacityInvariant ==
    HasMemory(layers) => Len(layers[1].cache) <= layers[1].maxSize

\* the memory layer's keys in insertion order
MemoryOrder(Ls) == [i \in 1..Len(Ls[1].cache) |-> Ls[1].cache[i].key]

(* C6 as stated: a memory layer of two entries under 'lru' holds k1 and k2,  *)
(* inserted in that order, and the last call read k1; inserting k3 then      *)
(* evicts k2 and keeps k1.  (Stated for k1 and k2 other than the empty key,  *)
(* which evict() never removes: see C5.)                                     *)
C6_RecencyEviction ==
    [][\A k1, k2 \in AllKeys \ {StrEmpty}, k3 \in AllKeys :
        ( /\ HasMemory(layers)
          /\ layers[1].maxSize = 2
          /\ layers[1].invalidation.type = "lru"
          /\ MemoryOrder(layers) = <<k1, k2>>
          /\ last.op = "get" /\ last.key = k1 /\ last.ok
          /\ k3 \notin {k1, k2}
          /\ IsCall("set", k3) )
        => MemoryKeys(layers') = {k1, k3}]_vars

(* C7 as stated: a memory layer of two entries under 'lfu' holds k1, read    *)
(* three times, and k2, never read; inserting k3 then evicts k2.             *)
C7_FrequencyEviction ==
    [][\A k1, k2, k3 \in AllKeys :
        ( /\ HasMemory(layers)
          /\ layers[1].maxSize = 2
          /\ layers[1].invalidation.type = "lfu"
          /\ MemoryKeys(layers) = {k1, k2}
          /\ k1 # k2
          /\ MapGet(layers[1].cache, k1).accessCount = 3
          /\ MapGet(layers[1].cache, k2).accessCount = 0
          /\ k3 \notin {k1, k2}
          /\ IsCall("set", k3) )
        => MemoryKeys(layers') = {k1, k3}]_vars

\* the number of entries of a layer whose tag set holds the tag
LayerTagged(L, tag, t) ==
    CASE L.name = "memory" ->
             Cardinality({i \in 1..Len(L.cache) : tag \in L.cache[i].entry.tags})
      [] L.name = "redis" ->
             LET db == RedisLive(L.client, t)
             IN Cardinality({k \in DOMAIN db :
                                db[k].type = "string" /\ tag \in db[k].data.tags})
      [] L.name = "file" ->
             Cardinality({f \in DOMAIN L.files : tag \in L.files[f].tags})

\* the number of entries of a layer
LayerSize(L, t) ==
    CASE L.name = "memory" -> Len(L.cache)
      [] L.name = "redis" ->
             LET db == RedisLive(L.client, t)
             IN Cardinality({k \in DOMAIN db : db[k].type = "string"})
      [] L.name = "file" -> Cardinality(DOMAIN L.files)

(* C8: deleteByTag(t) takes from the memory layer exactly the entries whose  *)
(* tag set holds t, leaves the others as they were and in their order, and   *)
(* reports the number it took; with the memory layer alone that number is    *)
(* what Composer.deleteByTag returns.                                        *)
C8_TagInvalidation ==
    [][\A tag \in Tags :
        (IsCall("deleteByTag", tag) /\ HasMemory(layers))
        => /\ MemoryKeys(layers')
                 = {k \in MemoryKeys(layers) : tag \notin MapGet(layers[1].cache, k).tags}
           /\ \A k \in MemoryKeys(layers') :
                  MapGet(layers'[1].cache, k) = MapGet(layers[1].cache, k)
           /\ \A i, j \in 1..Len(layers'[1].cache) :
                  i < j => MapIndex(layers[1].cache, layers'[1].cache[i].key)
                               < MapIndex(layers[1].cache, layers'[1].cache[j].key)
           /\ last'.per[1] = Cardinality(MemoryKeys(layers) \ MemoryKeys(layers'))
           /\ Len(layers) = 1 => last'.n = last'.per[1]]_vars

\* with entries tagged [a, b] and [b] in the memory layer, deleteByTag(b) has
\* removed both and returned 2
C8_Witness ==
    /\ Len(layers) = 1
    /\ HasMemory(layers)
    /\ last.op = "deleteByTag" /\ last.key = TagB /\ last.n = 2
    /\ last.gone = {StrAa, StrC}
    /\ lastSet[StrAa] # None /\ lastSet[StrAa][1].options.tags = {TagA, TagB}
    /\ lastSet[StrC] # None /\ lastSet[StrC][1].options.tags = {TagB}

\* the other order: deleteByTag(a) first has removed only the entry tagged [a, b]
\* and returned 1
C8_WitnessFirstOnly ==
    /\ Len(layers) = 1
    /\ HasMemory(layers)
    /\ last.op = "deleteByTag" /\ last.key = TagA /\ last.n = 1
    /\ last.gone = {StrAa}
    /\ MemoryKeys(layers) = {StrC}
    /\ lastSet[StrAa] # None /\ lastSet[StrAa][1].options.tags = {TagA, TagB}
    /\ lastSet[StrC] # None /\ lastSet[StrC][1].options.tags = {TagB}

(* C9 as stated: in every layer, deleteByTag(t) leaves alone an entry whose  *)
(* key was last set with tags that do not hold t, and does not count it: the *)
(* count a layer reports is the number of its entries tagged t.              *)
C9_TagsReplaceOnSet ==
    [][\A tag \in Tags :
        IsCall("deleteByTag", tag)
        => \A i \in 1..Len(layers) :
              /\ \A k \in Keys :
                     ( /\ lastSet[k] # None
                       /\ tag \notin lastSet[k][1].options.tags
                       /\ LayerEntry(layers[i], k, now) # None )
                     => LayerEntry(layers'[i], k, now) = LayerEntry(layers[i], k, now)
              /\ last'.per[i] = LayerTagged(layers[i], tag, now)]_vars

\* the members of a tag's set in Redis
RedisMembers(L, tag, t) ==
    LET db == RedisLive(L.client, t)
    IN IF RedisLayer_tagKey(L, tag) \in DOMAIN db
       THEN db[RedisLayer_tagKey(L, tag)].members
       ELSE {}

(* C10: Composer.deleteByTag(t) asks every layer and returns the sum of the  *)
(* counts the layers report: for the memory and the file layer the number of *)
(* entries the call removed from the layer, for Redis the size of the tag's  *)
(* set.                                                                      *)
C10_DeleteByTagSums ==
    [][\A tag \in Tags :
        IsCall("deleteByTag", tag)
        => /\ Len(last'.per) = Len(layers)
           /\ last'.n = SumSeq(last'.per)
           /\ \A i \in 1..Len(layers) :
                  last'.per[i] =
                      IF layers[i].name = "redis"
                      THEN Cardinality(RedisMembers(layers[i], tag, now))
                      ELSE LayerSize(layers[i], now) - LayerSize(layers'[i], now)]_vars

\* three layers each removed entries, two of them more than one, and the call
\* returned the total
C10_Witness ==
    /\ Len(layers) = 3
    /\ last.op = "deleteByTag"
    /\ last.per = <<2, 2, 2>>
    /\ last.n = 6

----------------------------------------------------------------------------
\* two entries are the same stored data (the access bookkeeping aside)
SameStored(e1, e2) ==
    /\ e1.value = e2.value
    /\ e1.expiresAt = e2.expiresAt
    /\ e1.createdAt = e2.createdAt
    /\ e1.tags = e2.tags

\* no layer holds, after the step, an entry it did not hold before it
NothingStored ==
    /\ Len(layers') = Len(layers)
    /\ \A i \in 1..Len(layers) : \A k \in AllKeys :
           LayerEntry(layers'[i], k, now) # None
           => /\ LayerEntry(layers[i], k, now) # None
              /\ SameStored(LayerEntry(layers'[i], k, now)[1],
                            LayerEntry(layers[i], k, now)[1])

(* C11 as stated: a getOrSet(k, loader2) that directly follows a completed   *)
(* getOrSet(k, loader) does not invoke loader2 and returns what the first    *)
(* call returned, whatever value that was.                                   *)
C11_SecondGetOrSetHits ==
    [][\A k \in Keys :
        ( /\ last.op = "getOrSet" /\ last.key = k /\ last.ok
          /\ IsCall("getOrSet", k) )
        => /\ last'.n = 0
           /\ last'.ok
           /\ last'.ret = last.ret]_vars

(* C12: a getOrSet whose loader was invoked and rejected rejects; no layer   *)
(* holds an entry it did not hold before the call, and of the global         *)
(* counters only misses moved, by one.                                       *)
C12_LoaderFailure ==
    [][\A k \in Keys :
        ( /\ IsCall("getOrSet", k)
          /\ last'.value = JSError
          /\ last'.n = 1 )
        => /\ ~last'.ok
           /\ NothingStored
           /\ globalStats' = [globalStats EXCEPT !.misses = @ + 1]]_vars

\* a getOrSet of a key no layer holds has rejected, after an earlier call stored
\* another key: the miss is counted, the set counter still shows the one earlier set
C12_Witness ==
    /\ last.op = "getOrSet" /\ ~last.ok /\ last.n = 1
    /\ Len(layers) = 3
    /\ \A i \in 1..Len(layers) : LayerEntry(layers[i], last.key, now) = None
    /\ \E k \in Keys : LayerEntry(layers[1], k, now) # None
    /\ globalStats.sets = 1
    /\ globalStats.misses >= 1

(* C13: Composer.delete(k) deletes in every layer; it returns true exactly   *)
(* when some layer held k (and so reported a deletion), and afterwards no    *)
(* layer holds k or answers has(k) with true.                                *)
C13_DeleteEverywhere ==
    [][\A k \in Keys :
        IsCall("delete", k)
        => /\ Len(layers') = Len(layers)
           /\ \A i \in 1..Len(layers) :
                  /\ layers'[i] = Layer_delete(layers[i], k, now).layer
                  /\ Layer_delete(layers[i], k, now).ret
                         = (LayerEntry(layers[i], k, now) # None)
                  /\ LayerEntry(layers'[i], k, now) = None
                  /\ ~Layer_has(layers'[i], k, now).ret
           /\ last'.ok = (\E i \in 1..Len(layers) : LayerEntry(layers[i], k, now) # None)]_vars

\* a delete has returned true because the two layers under the memory layer held
\* the key, which the memory layer had evicted; no layer holds it now
C13_Witness ==
    /\ last.op = "delete" /\ last.ok
    /\ Len(layers) = 3
    /\ last.gone = {}
    /\ lastSet[last.key] # None
    /\ \E k \in Keys \ {last.key} : LayerEntry(layers[1], k, now) # None
    /\ \A i \in 1..Len(layers) : LayerEntry(layers[i], last.key, now) = None

(* C14 as stated: once a delete(k) has returned true, every further          *)
(* delete(k) returns false as long as no call has written k in between (a    *)
(* set of k, or a get of k that was answered and may have promoted it).      *)
C14_DeleteIdempotent ==
    [][\A k \in AllKeys :
        (IsCall("delete", k) /\ k \in seen.deleted) => ~last'.ok]_vars

\* the pairs of a sequence of pairs
Pairs(seq) == {seq[i] : i \in 1..Len(seq)}

\* the step is an mget of exactly the keys of the mset that was the call before it
MGetFollowsMSet ==
    /\ last.op = "mset"
    /\ budget' = budget - 1
    /\ last'.op = "mget"
    /\ {last'.key[i] : i \in 1..Len(last'.key)} = PairKeys(last.per)

StatsMatchSeen ==
    LET stats == CacheComposer_getStats(globalStats, layers)
        h == seen.hits
        m == seen.misses
    IN /\ stats.hits = h
       /\ stats.misses = m
       /\ stats.totalRequests = h + m
       /\ stats.hitRate = IF h + m = 0 THEN Zero ELSE Quotient(h, h + m)
       /\ last.op = "resetStats"
              => /\ stats.hits = 0 /\ stats.misses = 0
                 /\ stats.sets = 0 /\ stats.deletes = 0
                 /\ stats.totalRequests = 0 /\ stats.hitRate = Zero

(* C16 as stated: whatever the configuration, getStats reports the hits and  *)
(* misses the gets had since construction or the last resetStats, with       *)
(* totalRequests their sum and hitRate hits over that sum (0 without         *)
(* requests); resetStats zeroes the four counters.                           *)
C16_StatsCountRequests == StatsMatchSeen

(* C16 as amended: the same with analytics enabled.                          *)
C16_StatsCountRequests_Analytics == analytics => StatsMatchSeen

\* after a set and a resetStats, one get hit and one missed: the counters show
\* no set, one hit, one miss, and the hit rate is 1/2
C16_Witness ==
    /\ analytics
    /\ \E k \in Keys : lastSet[k] # None
    /\ seen.hits = 1 /\ seen.misses = 1
    /\ LET stats == CacheComposer_getStats(globalStats, layers)
       IN /\ stats.sets = 0
          /\ stats.totalRequests = 2
          /\ stats.hitRate = [num |-> 1, den |-> 2]

(* C17: after Composer.clear() every layer lists no key, Composer.keys()     *)
(* returns the empty list, and get and has report every key absent.          *)
C17_ClearEmpties ==
    [][IsCall("clear", StrEmpty)
       => /\ Len(layers') = Len(layers)
          /\ \A i \in 1..Len(layers) :
                 /\ Layer_keys(layers'[i], now).ret = << >>
                 /\ LayerSize(layers'[i], now) = 0
          /\ CacheComposer_keys(layers', now).ret = << >>
          /\ \A k \in AllKeys :
                 /\ CacheComposer_get(layers', k, now).ret = JSNull
                 /\ ~CacheComposer_has(layers', k, now).ret]_vars

\* a clear of three layers after both keys had been set: the memory layer lost
\* the key it held and nothing is left anywhere
C17_Witness ==
    /\ last.op = "clear"
    /\ Len(layers) = 3
    /\ \A k \in Keys : lastSet[k] # None
    /\ last.gone # {}
    /\ \A i \in 1..Len(layers) : \A k \in Keys : LayerEntry(layers[i], k, now) = None

\* the first layer, in order, whose has answers true for the key; 0 when none does
FirstPresent(Ls, key, t) ==
    IF \E i \in 1..Len(Ls) : Layer_has(Ls[i], key, t).ret
    THEN CHOOSE i \in 1..Len(Ls) :
             /\ Layer_has(Ls[i], key, t).ret
             /\ \A j \in 1..(i - 1) : ~Layer_has(Ls[j], key, t).ret
    ELSE 0

(* C18: Composer.has(k) asks the layers in order up to the first that        *)
(* reports k present and answers true exactly when there is one; the layers  *)
(* after it are not touched, no layer gains or changes an entry, no layer's  *)
(* hit and miss statistics move, and the global counters are unchanged.      *)
C18_HasProbesOnly ==
    [][\A k \in Keys :
        IsCall("has", k)
        => LET first == FirstPresent(layers, k, now) IN
           /\ last'.ok = (first # 0)
           /\ Len(layers') = Len(layers)
           /\ \A i \in 1..Len(layers) :
                  /\ (first = 0 \/ i <= first)
                         => layers'[i] = Layer_has(layers[i], k, now).layer
                  /\ (first # 0 /\ i > first) => layers'[i] = layers[i]
                  /\ layers'[i].stats = layers[i].stats
                  /\ \A kk \in AllKeys :
                         LayerEntry(layers'[i], kk, now) # None
                         => LayerEntry(layers'[i], kk, now) = LayerEntry(layers[i], kk, now)
           /\ globalStats' = globalStats]_vars

\* has has answered true for a key that the memory layer had evicted and the
\* layer under it holds: the memory layer still does not hold it
C18_Witness ==
    /\ last.op = "has" /\ last.ok
    /\ Len(layers) >= 2 /\ HasMemory(layers)
    /\ LayerEntry(layers[1], last.key, now) = None
    /\ LayerEntry(layers[2], last.key, now) # None
    /\ layers[1].stats.size = 1

(* C19: every entry held by any layer has expiresAt > createdAt, whatever    *)
(* options.ttl the set that wrote it was given (none, zero, positive or      *)
(* negative) and whatever the layer's default TTL.                           *)
C19_ExpiresAfterCreated ==
    \A i \in 1..Len(layers) : \A k \in AllKeys :
        LET e == LayerEntry(layers[i], k, now) IN
        e # None => e[1].expiresAt > e[1].createdAt

(* C20: in the memory layer, a get that hits k raises the accessCount of k's *)
(* entry by exactly one and sets its lastAccessed to the time of the get;    *)
(* every other step that leaves k in the layer, a set that overwrites k      *)
(* included, changes neither field.                                          *)
C20_AccessBookkeeping ==
    [][\A k \in AllKeys :
        ( /\ HasMemory(layers)
          /\ LayerEntry(layers[1], k, now) # None
          /\ LayerEntry(layers'[1], k, now') # None )
        => LET e == LayerEntry(layers[1], k, now)[1]
               e1 == LayerEntry(layers'[1], k, now')[1]
           IN IF IsCall("get", k) /\ last'.ret # JSNull
              THEN e1.accessCount = e.accessCount + 1 /\ e1.lastAccessed = now
              ELSE e1.accessCount = e.accessCount /\ e1.lastAccessed = e.lastAccessed]_vars

\* the value a layer keeps for a value it is given: the memory layer the value
\* itself, the other layers what its JSON text reads back as
StoredValue(L, value) ==
    IF L.name = "memory" THEN value ELSE JsonRoundTrip([value |-> value]).value

\* the backend of layer i failed during the call that `last` describes
Failed(call, i) == i \in DOMAIN call.per /\ call.per[i]

(* C21: a Composer call during which layers' backends fail never ends in an  *)
(* exception.  A set leaves every layer whose backend worked holding the key *)
(* with the value, exactly as a set without failures does; a get counts a    *)
(* miss in each failing layer it asked and returns null exactly when no      *)
(* working layer answers the key; a delete returns true exactly when a       *)
(* working layer reported a deletion, the failing layers counting as false.  *)
C21_FailSoft ==
    [][\A k \in Keys :
        /\ IsCall("set", k)
           => /\ last'.ret # JSError /\ last'.ok
              /\ \A i \in 1..Len(layers) :
                     IF Failed(last', i) THEN layers'[i] = layers[i]
                     ELSE /\ layers'[i] = Layer_set(layers[i], k, last'.value,
                                                    last'.options, now).layer
                          /\ LayerEntry(layers'[i], k, now) # None
                          /\ LayerEntry(layers'[i], k, now)[1].value
                                 = StoredValue(layers[i], last'.value)
        /\ IsCall("get", k)
           => /\ last'.ret # JSError
              /\ (last'.ret = JSNull)
                     = (\A i \in 1..Len(layers) :
                            Failed(last', i) \/ Layer_get(layers[i], k, now).ret = JSNull)
              /\ \A i \in 1..Len(layers) :
                     (Failed(last', i) /\ (last'.hit = 0 \/ i < last'.hit))
                     => /\ layers'[i].stats.misses = layers[i].stats.misses + 1
                        /\ layers'[i].stats.hits = layers[i].stats.hits
                        /\ LayerEntry(layers'[i], k, now) = LayerEntry(layers[i], k, now)
        /\ IsCall("delete", k)
           => /\ last'.ret # JSError
              /\ last'.ok = (\E i \in 1..Len(layers) :
                                 ~Failed(last', i) /\ Layer_delete(layers[i], k, now).ret)
              /\ \A i \in 1..Len(layers) : Failed(last', i) => layers'[i] = layers[i]]_vars

\* a set on three layers with the Redis client failing has returned; the
\* memory and the file layer hold the key and the Redis layer does not
C21_Witness ==
    /\ last.op = "set" /\ last.ok /\ Len(layers) = 3
    /\ last.per = <<FALSE, TRUE, FALSE>>
    /\ LayerEntry(layers[1], last.key, now) # None
    /\ LayerEntry(layers[2], last.key, now) = None
    /\ LayerEntry(layers[3], last.key, now) # None

(* C22: touch(k, ttl) returns false and writes no entry to any layer when    *)
(* get(k) returns null; otherwise it returns true and every layer, the ones  *)
(* below the layer that served the read included, then holds k with the      *)
(* value read, created now and expiring after the new TTL (the layer's       *)
(* default TTL when ttl is absent or 0).                                     *)
C22_Touch ==
    [][\A k \in Keys :
        IsCall("touch", k)
        => LET g == CacheComposer_get(layers, k, now) IN
           IF g.ret = JSNull
           THEN /\ ~last'.ok
                /\ \A i \in 1..Len(layers) : \A kk \in AllKeys :
                       LayerEntry(layers'[i], kk, now) # None
                       => LayerEntry(layers'[i], kk, now) = LayerEntry(layers[i], kk, now)
           ELSE /\ last'.ok
                /\ \A i \in 1..Len(layers) :
                       LET e == LayerEntry(layers'[i], k, now) IN
                       /\ e # None
                       /\ e[1].value = StoredValue(layers[i], g.ret)
                       /\ e[1].createdAt = now
                       /\ e[1].expiresAt
                              = now + TtlOrDefault(last'.options, layers[i].defaultTTL)]_vars

\* a touch with a TTL of 2 of a key that the second of three layers served has
\* returned true, after the clock had moved since the key's set
C22_Witness ==
    /\ last.op = "touch" /\ last.ok /\ last.hit = 2 /\ Len(layers) = 3
    /\ last.options.ttl = Some(2) /\ last.at > 0
    /\ \A i \in 1..3 :
           /\ LayerEntry(layers[i], last.key, now) # None
           /\ LayerEntry(layers[i], last.key, now)[1].expiresAt = last.at + 2

\* a touch of a key no layer holds has returned false
C22_WitnessAbsent ==
    /\ last.op = "touch" /\ ~last.ok /\ Len(layers) = 3
    /\ \E k \in Keys \ {last.key} : LayerEntry(layers[3], k, now) # None

(* C23: with invalidation type 'manual', a set on the memory layer removes   *)
(* no entry stored under another key.                                        *)
C23_ManualNeverEvicts ==
    [][\A k \in AllKeys :
        ( /\ HasMemory(layers)
          /\ layers[1].invalidation.type = "manual"
          /\ IsCall("set", k) )
        => \A kk \in AllKeys \ {k} :
               MapHas(layers[1].cache, kk) => MapHas(layers'[1].cache, kk)]_vars

(* C24: a set of a key that is resident in the memory layer evicts nothing,  *)
(* also at full capacity: every resident key is resident afterwards, in the  *)
(* same order, and the size is unchanged.                                    *)
C24_ReinsertNeverEvicts ==
    [][\A k \in AllKeys :
        ( /\ HasMemory(layers)
          /\ MapHas(layers[1].cache, k)
          /\ IsCall("set", k) )
        => /\ MemoryOrder(layers') = MemoryOrder(layers)
           /\ layers'[1].stats.size = layers[1].stats.size
           /\ Len(layers'[1].cache) = Len(layers[1].cache)
           /\ last'.gone = {}]_vars

\* the last call has set the key that entered a memory layer of two entries
\* first, with the layer full: the key kept its place and the other key stayed
C24_Witness ==
    /\ last.op = "set" /\ HasMemory(layers)
    /\ layers[1].maxSize = 2 /\ Len(layers[1].cache) = 2
    /\ layers[1].cache[1].key = last.key
    /\ layers[1].cache[1].entry.createdAt > layers[1].cache[2].entry.createdAt

\* the memory layer holds an entry for the key that has expired by time t
ExpiredResident(Ls, key, t) ==
    /\ HasMemory(Ls) /\ MapHas(Ls[1].cache, key)
    /\ Expired(MapGet(Ls[1].cache, key), t)

(* C25: an entry of the memory layer leaves it only by a get or has of its   *)
(* key once it has expired, by a delete of its key, by a clear, or by the    *)
(* eviction that a set of a new key into the full layer makes; the passing   *)
(* of time removes nothing.  Until then an expired entry is listed by        *)
(* keys(), counted by size() and counted by set's capacity check: a set of a *)
(* new key into a layer that is full, expired entries included, evicts.      *)
C25_LazyExpiry ==
    [][/\ HasMemory(layers) /\ HasMemory(layers')
       /\ \A k \in AllKeys :
              (MapHas(layers[1].cache, k) /\ ~MapHas(layers'[1].cache, k))
              => \/ (IsCall("get", k) \/ IsCall("has", k)) /\ ExpiredResident(layers, k, now)
                 \/ IsCall("delete", k)
                 \/ IsCall("clear", StrEmpty)
                 \/ /\ last'.op = "set" /\ last'.key # k /\ budget' = budget - 1
                    /\ ~MapHas(layers[1].cache, last'.key)
                    /\ Len(layers[1].cache) >= layers[1].maxSize
       /\ (now' # now) => layers' = layers
       /\ \A k \in AllKeys :
              ExpiredResident(layers', k, now')
              => /\ \E i \in 1..Len(layers'[1].cache) :
                        MemoryLayer_keys(layers'[1]).ret[i] = k
                 /\ MemoryLayer_size(layers'[1]).ret
                        = Cardinality(MemoryKeys(layers'))
       /\ \A k \in Keys :
              ( /\ IsCall("set", k)
                /\ ~MapHas(layers[1].cache, k)
                /\ Len(layers[1].cache) >= layers[1].maxSize )
              => Len(layers'[1].cache) = Len(layers[1].cache)]_vars

\* a set of another key has run at time 2 on a layer of two entries, and the
\* entry that expired at time 1 and was never read is still resident
C25_Witness ==
    /\ last.op = "set" /\ last.at = 2 /\ now = 2
    /\ HasMemory(layers) /\ layers[1].maxSize = 2 /\ Len(layers[1].cache) = 2
    /\ \E k \in Keys \ {last.key} :
           /\ ExpiredResident(layers, k, now)
           /\ MapGet(layers[1].cache, k).accessCount = 0

(* C26: the entry that a get served by layer i writes into each layer above *)
(* i is created now, expires after that layer's default TTL and has no tags, *)
(* whatever the key's set was given; and a deleteByTag that directly follows *)
(* the get removes the copy from none of those layers.                       *)
C26_PromotionIsPlainSet ==
    [][/\ \A k \in Keys :
              (IsCall("get", k) /\ last'.hit > 1)
              => \A j \in 1..(last'.hit - 1) :
                     LET e == LayerEntry(layers'[j], k, now) IN
                     /\ e # None
                     /\ e[1].createdAt = now
                     /\ e[1].expiresAt = now + layers[j].defaultTTL
                     /\ e[1].tags = {}
       /\ \A tag \in Tags :
              (last.op = "get" /\ last.hit > 1 /\ IsCall("deleteByTag", tag))
              => \A j \in 1..(last.hit - 1) :
                     LayerEntry(layers[j], last.key, now) # None
                     => LayerEntry(layers'[j], last.key, now) # None]_vars

(* C27: a get(k) served by layer i found k in no layer above i, writes k to  *)
(* every layer above i and to no other: the entry of layer i is the one that *)
(* was stored (value, expiry, creation time and tags), and the layers below  *)
(* i are neither asked nor written, their entries and statistics unchanged.  *)
C27_PromotionFrame ==
    [][\A k \in Keys :
        (IsCall("get", k) /\ last'.hit > 0)
        => LET i == last'.hit IN
           /\ i <= Len(layers)
           /\ \A j \in 1..(i - 1) :
                  /\ Layer_get(layers[j], k, now).ret = JSNull
                  /\ LayerEntry(layers'[j], k, now) # None
                  /\ LayerEntry(layers'[j], k, now)[1].createdAt = now
                  /\ LayerEntry(layers'[j], k, now)[1].value
                         = StoredValue(layers[j], last'.ret)
           /\ LayerEntry(layers[i], k, now) # None
           /\ LayerEntry(layers'[i], k, now) # None
           /\ SameStored(LayerEntry(layers'[i], k, now)[1], LayerEntry(layers[i], k, now)[1])
           /\ layers'[i].stats.hits = layers[i].stats.hits + 1
           /\ \A j \in (i + 1)..Len(layers) : layers'[j] = layers[j]]_vars

\* a get has been served by the second of three layers some time after the
\* key's set: the first layer's copy was created by the get, the other two
\* layers hold the entry of the set
C27_Witness ==
    /\ last.op = "get" /\ last.hit = 2 /\ Len(layers) = 3 /\ last.at > 0
    /\ lastSet[last.key] # None /\ lastSet[last.key][1].at < last.at
    /\ LayerEntry(layers[1], last.key, now)[1].createdAt = last.at
    /\ LayerEntry(layers[2], last.key, now)[1].createdAt = lastSet[last.key][1].at
    /\ LayerEntry(layers[3], last.key, now)[1].createdAt = lastSet[last.key][1].at
    /\ layers[3].stats.hits = 0 /\ layers[3].stats.misses = 0

(* C28: with calls in flight in every interleaving, each step changes the   *)
(* memory layer's Map by whole MemoryLayer operations only (a get, a delete, *)
(* a set with its capacity check, eviction and insertion, or the sets of an  *)
(* mset one after the other), and the Map never holds more than maxSize      *)
(* entries.                                                                  *)
C28_SetIsOneStep ==
    [][(HasMemory(layers) /\ HasMemory(layers'))
       => LET L == layers[1]
              cache == layers'[1].cache
          IN /\ \/ cache = L.cache
                \/ \E k \in AllKeys : cache = MemoryLayer_get(L, k, now).layer.cache
                \/ \E k \in AllKeys : cache = MemoryLayer_delete(L, k).layer.cache
                \/ \E k \in AllKeys, v \in {"v1", "v2"} :
                       cache = MemoryLayer_set(L, k, v, NoOptions, now).layer.cache
                \/ \E entries \in EntriesRace : cache = SetSync(<<L>>, entries, now)[1].cache
             /\ Len(cache) <= L.maxSize]_vars

\* the call in place c is a getOrSet that has invoked its loader
Loading(c) == calls[c].op = "getOrSet" /\ calls[c].pc \in {"load", "fanout"}

C30_DeleteIsFinal ==
    \A k \in final :
        /\ \A i \in 1..Len(layers) : LayerEntry(layers[i], k, now) = None
        /\ CacheComposer_get(layers, k, now).ret = JSNull

\* no call is in flight
Quiescent(cs) == \A c \in DOMAIN cs : cs[c].pc = "idle"

(* C31: when a get returns that was still promoting the value it had read    *)
(* while a set of its key with another value returned, and no call is left   *)
(* in flight, every layer that holds the key holds the value of the latest   *)
(* set, and a get of the key would return that value.                        *)
C31_NoStalePromotion ==
    [][\A c \in 1..MaxInFlight :
        (calls[c].stale /\ Quiescent(calls'))
        => LET k == calls[c].key
               v == lastSet'[k][1].value
           IN /\ \A i \in 1..Len(layers') :
                     \/ LayerEntry(layers'[i], k, now') = None
                     \/ LayerEntry(layers'[i], k, now')[1].value = v
              /\ CacheComposer_get(layers', k, now').ret = v]_vars

(* C32: a touch that returned true leaves the tags of the key's entry as     *)
(* they were in every layer that held the key, and a deleteByTag for one of  *)
(* these tags, issued after the touch, leaves the key in no layer.           *)
C32_TouchKeepsTags ==
    [][(last'.op = "touch" /\ last' # last /\ last'.ok)
       => \A i \in 1..Len(layers) :
              LET before == LayerEntry(layers[i], last'.key, now)
                  after == LayerEntry(layers'[i], last'.key, now')
              IN before # None
                 => /\ after # None
                    /\ after[1].tags = before[1].tags
                    /\ \A tag \in before[1].tags :
                           LET Ls == CacheComposer_deleteByTag(layers', tag, now').layers
                           IN \A j \in 1..Len(Ls) :
                                  LayerEntry(Ls[j], last'.key, now') = None]_vars

(* C33: after every operation the size that the memory layer reports in its  *)
(* statistics is the number of entries resident in it.                       *)
C33_StatsSizeIsResident ==
    HasMemory(layers)
    => CacheComposer_getStats(globalStats, layers).layerStats["memory"].size
           = MemoryLayer_size(layers[1]).ret

\* the four global counters are zero
NothingCounted == \A f \in DOMAIN globalStats : globalStats[f] = 0

(* C34: with analytics enabled, a get, and the get inside a getOrSet or a    *)
(* touch, adds one to the global hits or to the global misses and to no      *)
(* other counter of the two; an mget does so once for each key; a get that   *)
(* promoted counts no set; has, keys and ttl leave the four counters as they *)
(* were.  With analytics disabled the four counters are zero in every state. *)
C34_GlobalCounters ==
    [][budget' # budget
       => LET hits == globalStats'.hits - globalStats.hits
              misses == globalStats'.misses - globalStats.misses
          IN /\ analytics
                => /\ last'.op \in {"get", "getOrSet", "touch"}
                      => /\ <<hits, misses>> \in {<<1, 0>>, <<0, 1>>}
                         /\ globalStats'.deletes = globalStats.deletes
                   /\ last'.op = "get"
                      => /\ hits = 1 <=> last'.ret # JSNull
                         /\ globalStats'.sets = globalStats.sets
                   /\ last'.op = "mget"
                      => /\ hits >= 0 /\ misses >= 0
                         /\ hits + misses = Len(last'.key)
                         /\ globalStats'.sets = globalStats.sets
                         /\ globalStats'.deletes = globalStats.deletes
                   /\ last'.op \in {"has", "keys", "ttl"}
                      => globalStats' = globalStats
             /\ ~analytics => NothingCounted /\ NothingCounted']_vars

\* with analytics enabled, a get was served by the second layer and promoted
\* into the memory layer: one hit, and no set besides the two calls of set before it
C34_Witness ==
    /\ analytics
    /\ last.op = "get" /\ last.hit = 2
    /\ LayerEntry(layers[1], last.key, now) # None
    /\ globalStats.hits = 1 /\ globalStats.sets = 2

\* with analytics disabled, a touch has found its key and set it again
C34_WitnessDisabled ==
    /\ ~analytics
    /\ last.op = "touch" /\ last.ok

\* the keys that at least one layer holds
HeldKeys(Ls, t) == {k \in Keys : \E i \in 1..Len(Ls) : LayerEntry(Ls[i], k, t) # None}

(* C35: invalidatePattern returns the number of keys, held by at least one   *)
(* layer, that match the pattern, and when it has returned no layer holds a  *)
(* key that matches the pattern, in every layer configuration.               *)
C35_InvalidatePattern ==
    [][(budget' # budget /\ last'.op = "invalidatePattern")
       => /\ last'.n = Cardinality({k \in HeldKeys(layers, now) : RegExpTest(last'.key, k)})
          /\ \A k \in HeldKeys(layers', now') : ~RegExpTest(last'.key, k)]_vars

====
